---------------------------- MODULE Spec2Model ----------------------------
(***************************************************************************)
(* Request pipeline of the Abhi Go SDK client package:                     *)
(*   - AuthManager   (bearer-token cache and login refresh)                *)
(*   - RateLimiter   (token bucket: Allow / Wait / GetAvailableTokens)     *)
(*   - retryTransport (retry with exponential backoff)                     *)
(* Each component has its own specification over the shared variables;     *)
(* the variables of the other components stay at their initial values.     *)
(***************************************************************************)
EXTENDS Integers, Sequences, FiniteSets, TLC

(***************************************************************************)
(* Bounds of the model.                                                    *)
(***************************************************************************)
\* concurrent goroutines calling AuthManager.GetToken
NumCallers == 2
\* GetToken calls started in one behaviour
MaxCalls == 3
\* the wall clock runs from StartTime to MaxNow (AuthManager: 5-minute ticks)
MaxNow == 2
\* largest "exp" claim the login endpoint puts into a JWT (same ticks)
MaxExp == 4
\* concurrent goroutines calling RateLimiter.Allow / Wait
NumLimiterCallers == 2
\* largest BurstSize and RequestsPerSecond (in token units per tick) configured
MaxBurst == 2
MaxRate == 1
\* the limiter's clock runs from StartTime to StartTime + MaxTicks
MaxTicks == 2
\* resolution of the bucket: 1.0 token is TokenScale units
TokenScale == 2
\* largest maxRetries and retryDelay handed to a retryTransport
MaxRetriesBound == 3
MaxDelay == 2
\* longest request body handed to a retryTransport
MaxBodyLen == 2
\* largest absolute value of the StatusCode of an APIError
MaxStatus == 600
\* reconfiguration calls made on one Client, and wrappers in its chain
MaxConfigOps == 3
MaxChain == 3
\* largest maxRetries and retryDelay handed to Client.SetRetryPolicy
MaxChainRetries == 1
MaxChainDelay == 1
\* parameters in a raw query; seconds the clock may be beyond the replay window
MaxQueryTokens == 2
MaxDrift == 1
\* longest plaintext handed to Encrypt, and nonces rand.Reader may deliver
MaxExtra == 2
MaxLatency == 1

MaxPlainLen == 2
MaxNonces == 2

(***************************************************************************)
(* Time.  For the AuthManager one tick is 5 minutes, so the validity       *)
(* buffer of isTokenValid (5 * time.Minute) is 1 tick and the fallback     *)
(* lifetime of refreshToken (23 * time.Hour) is 276 ticks.  ZeroTime is    *)
(* time.Time{} (year 1), before every clock reading and every exp claim.   *)
(***************************************************************************)
ZeroTime == 0
StartTime == ZeroTime + 1
TokenBuffer == 1
FallbackLifetime == 276

VARIABLES
    now,            \* wall clock (time.Now())
    \* ---- AuthManager
    token,          \* a.token: a string, as a sequence (<<>> is "")
    expiresAt,      \* a.expiresAt
    refreshMutex,   \* a.refreshMutex: 0 unlocked, else the caller holding it
    pc,             \* position of each GetToken caller
    result,         \* what each caller's GetToken returned: [tok, err]
    loginResp,      \* kind of the login response this call received ("none" so far)
    waitedOnOK,     \* this call was blocked on refreshMutex while a login succeeded
    loginsSent,     \* login requests that reached the endpoint
    calls,          \* GetToken calls started
    clearedInFlight, \* history: ClearToken returned while the login now in flight was out
    mutex,          \* a.mutex (sync.RWMutex): who holds it, and ClearToken's position
    local,          \* refreshToken's locals token, expiresAt after a successful login
    \* ---- RateLimiter
    rlConfig,       \* the *RateLimitConfig handed to NewRateLimiter
    rlNil,          \* the *RateLimiter is nil
    tokens,         \* rl.tokens, in units of 1/TokenScale token
    maxTokens,      \* rl.maxTokens, same units
    refillRate,     \* rl.refillRate, units per tick
    lastRefill,     \* rl.lastRefill
    rlMutex,        \* rl.mutex: 0 unlocked, else the caller holding it
    lpc,            \* position of each limiter caller
    lop,            \* the call in progress: "Allow", "Wait" or "none"
    lnow,           \* Allow's local now
    lok,            \* Allow's decision (tokens >= 1.0), before the spend
    lres,           \* what the call returned
    ctxDone,        \* the context of the caller's Wait is cancelled
    sleepLeft,      \* ticks until the time.After timer of Wait fires
    admitLog,       \* the clock readings of the admissions, in order
    \* ---- retryTransport, one RoundTrip call
    rtMaxRetries,   \* rt.maxRetries
    rtRetryDelay,   \* rt.retryDelay
    script,         \* what the inner transport answers to its 1st, 2nd, ... call
    rtpc,           \* position of the RoundTrip call
    ri,             \* the loop index i
    rtResp,         \* resp
    rtErr,          \* err # nil
    requests,       \* calls of the inner transport's RoundTrip
    sleeps,         \* the durations handed to time.Sleep, in order
    rtBody,         \* the body the request was built with (nil, or its content)
    reqBody,        \* req.Body: nil, or what is left to read of the stream
    \* ---- Client: the transport chain and one request passing through it
    chain,          \* c.httpClient.Transport: the wrappers, outermost first
    base,           \* the transport under the wrappers
    cRateLimiter,   \* c.rateLimiter # nil
    cRequestSigner, \* c.requestSigner # nil
    cfgRateLimit,   \* c.config.RateLimit: "nil", "enabled" or "disabled"
    configOps,      \* reconfiguration calls made
    reconf,         \* a SetRateLimit call between its in-place edit and its
                    \* assignment of Transport, and the chain it started from
    rqpc,           \* position of the request: going down, coming up, asleep
    rqKind,         \* "api" (makeRequest) or "login" (refreshToken)
    rqPos,          \* the layer the request is at
    rqIdx,          \* the loop index i of each retryTransport on the way
    rqResp,         \* the response on its way up
    rqErr,          \* the error on its way up: "nil", "err" or "ctxerr"
    rqCtxDone,      \* the request's context is cancelled
    rqWaited,       \* RateLimiter.Wait calls since the last base call
    rqSigned,       \* X-Timestamp / X-Signature: "none", "fresh" or "stale"
    attempts,       \* calls of the base transport made for the request
    rqSleeps,       \* time the request spent in time.Sleep
    \* ---- RequestSigner and the request it signs
    rsNil,          \* the *RequestSigner is nil
    sreq,           \* the *http.Request and its body
    xSignature,     \* the X-Signature header SignRequest set
    signedReq,      \* the request as SignRequest left it
    tampered,       \* the field changed since, or "none"
    verified,       \* what VerifySignature returned: "none", "true", "false"
    \* ---- CredentialEncryption
    cePassword,     \* the password of the instance that encrypts
    plaintext,      \* the argument of Encrypt
    sealed,         \* nonce, ciphertext and tag as gcm.Seal returned them
    ciphertext,     \* the string Encrypt returned, as it is now
    alteration,     \* what was done to the string since, or "none"
    decPassword,    \* the password of the instance that decrypts
    decResult,      \* what Decrypt returned: [text, err]
    \* ---- a run of API requests sent back to back through one Client
    bpc,            \* where the run is: "ready", "gate", "sleep", "sign", "base", "finished"
    bKind,          \* the request in the transport chain: "none", "login", "api"
    bSent,          \* API requests answered so far
    bSlept,         \* whether Wait has slept for the request in the chain
    bLog,           \* one record per request that passed Wait: [kind, immediate, at, verified]
    mr,             \* one makeRequest call: position, body, error returned, requests sent
    apiError,       \* an APIError: StatusCode, and what IsClientError and IsServerError
                    \* returned ("uncalled" before the call)
    \* ---- CredentialManagers over one MemoryCredentialStore
    cmStore,        \* ms.store: the records in the map, one per key at most
    cmLast,         \* per key, what the last StoreCredentials that succeeded was given
    cmpc,           \* per goroutine: "off", "idle", "inmap", "done"
    cmOp,           \* per goroutine: the call it is in
    cmRes,          \* per goroutine: what its call returned
    cmFault,        \* the runtime stopped the process on a concurrent map access
    cmClient        \* the Client: a custom store configured, the password of its
                    \* credentialManager ("" while the manager is nil)

authVars == <<token, expiresAt, refreshMutex, pc, result, loginResp,
              waitedOnOK, loginsSent, calls, clearedInFlight, mutex, local>>

limiterVars == <<rlConfig, rlNil, tokens, maxTokens, refillRate, lastRefill, rlMutex, lpc,
                 lop, lnow, lok, lres, ctxDone, sleepLeft, admitLog>>

retryVars == <<rtMaxRetries, rtRetryDelay, script, rtpc, ri, rtResp, rtErr,
               requests, sleeps, rtBody, reqBody>>

chainVars == <<chain, base, cRateLimiter, cRequestSigner, cfgRateLimit, configOps, reconf,
               rqpc, rqKind, rqPos, rqIdx, rqResp, rqErr, rqCtxDone, rqWaited,
               rqSigned, attempts, rqSleeps>>

signVars == <<rsNil, sreq, xSignature, signedReq, tampered, verified>>

vaultVars == <<cePassword, plaintext, sealed, ciphertext, alteration, decPassword,
               decResult>>

batchVars == <<bpc, bKind, bSent, bSlept, bLog, mr, apiError>>

credVars == <<cmStore, cmLast, cmpc, cmOp, cmRes, cmFault, cmClient>>

vars == <<now, authVars, limiterVars, retryVars, chainVars, signVars, vaultVars, batchVars,
          credVars>>

Callers == 1..NumCallers

(***************************************************************************)
(* Token strings.  <<>> is the empty string, <<0>> a non-empty string that *)
(* is not a JWT with a numeric exp claim, <<e>> (e >= 1) a JWT whose exp   *)
(* claim is e.                                                             *)
(***************************************************************************)
EmptyString == <<>>

\* jwt ParseUnverified + claims["exp"].(float64) + time.Unix(int64(exp), 0)
parseTokenExpiration(tokenString) ==
    IF Len(tokenString) = 1 /\ tokenString[1] >= 1
    THEN [ok |-> TRUE, exp |-> tokenString[1]]
    ELSE [ok |-> FALSE, exp |-> ZeroTime]

(***************************************************************************)
(* What the login endpoint (or the network) may answer to one request.     *)
(***************************************************************************)
FailureKinds == {"neterr", "non200", "badjson", "baddata", "notoken"}
LoginResponses ==
    {[kind |-> k, tok |-> EmptyString] : k \in FailureKinds}
    \cup {[kind |-> "ok", tok |-> t] :
              t \in {EmptyString, <<0>>} \cup {<<e>> : e \in 1..MaxExp}}

Returned(t) == [tok |-> t, err |-> "nil"]
Failed(e) == [tok |-> EmptyString, err |-> e]

\* the error refreshToken returns for each failing response
loginError(kind) ==
    CASE kind = "neterr"  -> "failed to perform login request"
      [] kind = "non200"  -> "login failed"
      [] kind = "badjson" -> "failed to decode login response"
      [] kind = "baddata" -> "invalid login response data format"
      [] kind = "notoken" -> "token not found in login response"

isTokenValid_TenMinutes ==
    /\ token # EmptyString
    /\ now + 2 * TokenBuffer < expiresAt

\* AuthManager.isTokenValid
isTokenValid ==
    /\ token # EmptyString
    /\ now + TokenBuffer < expiresAt

\* a freshly constructed AuthManager with no caller inside (NewAuthManager)
NewAuthManager ==
    /\ token = EmptyString
    /\ expiresAt = ZeroTime
    /\ refreshMutex = 0
    /\ pc = [p \in Callers |-> "idle"]
    /\ result = [p \in Callers |-> [tok |-> EmptyString, err |-> "pending"]]
    /\ loginResp = [p \in Callers |-> "none"]
    /\ waitedOnOK = [p \in Callers |-> FALSE]
    /\ loginsSent = 0
    /\ calls = 0
    /\ clearedInFlight = FALSE
    /\ mutex = [readers |-> {}, writer |-> 0, clearing |-> "off"]
    /\ local = [p \in Callers |-> [token |-> EmptyString, expiresAt |-> ZeroTime]]

(***************************************************************************)
(* RateLimiter (token bucket).  One tick is the 10 ms poll interval of     *)
(* Wait; the bucket is kept in fixed point, TokenScale units per token,    *)
(* so the refill tokens += elapsed * refillRate is exact.                  *)
(***************************************************************************)
LimiterCallers == 1..NumLimiterCallers

\* Wait: "if waitTime > time.Millisecond { waitTime = time.Millisecond * 10 }"
PollThresholdMs == 1
PollIntervalMs == 10

\* *RateLimitConfig values: nil, or RequestsPerSecond / BurstSize / Enabled
RateLimitConfigs ==
    {[isNil |-> TRUE, rps |-> 0, burst |-> 0, enabled |-> FALSE]}
    \cup [isNil : {FALSE}, rps : 1..MaxRate, burst : 1..MaxBurst, enabled : BOOLEAN]

NilLimiter ==
    [nil |-> TRUE, tokens |-> 0, maxTokens |-> 0, refillRate |-> 0,
     lastRefill |-> ZeroTime]

NewRateLimiter_IgnoreEnabled(config, t) ==
    IF config.isNil
    THEN NilLimiter
    ELSE [nil |-> FALSE,
          tokens |-> IF config.enabled THEN config.burst * TokenScale ELSE 0,
          maxTokens |-> config.burst * TokenScale,
          refillRate |-> config.rps,
          lastRefill |-> t]

\* NewRateLimiter at clock reading t
NewRateLimiter(config, t) ==
    IF config.isNil \/ ~config.enabled
    THEN NilLimiter
    ELSE [nil |-> FALSE,
          tokens |-> config.burst * TokenScale,
          maxTokens |-> config.burst * TokenScale,
          refillRate |-> config.rps,
          lastRefill |-> t]

Refill_NoCap(tok, elapsed) == tok + elapsed * refillRate

\* Allow: tokens += elapsed * refillRate, capped at maxTokens
Refill(tok, elapsed) ==
    IF tok + elapsed * refillRate > maxTokens
    THEN maxTokens
    ELSE tok + elapsed * refillRate

\* no caller is inside the limiter
LimiterCallersIdle ==
    /\ rlMutex = 0
    /\ lpc = [p \in LimiterCallers |-> "idle"]
    /\ lop = [p \in LimiterCallers |-> "none"]
    /\ lnow = [p \in LimiterCallers |-> ZeroTime]
    /\ lok = [p \in LimiterCallers |-> FALSE]
    /\ lres = [p \in LimiterCallers |-> "none"]
    /\ ctxDone = [p \in LimiterCallers |-> FALSE]
    /\ sleepLeft = [p \in LimiterCallers |-> ZeroTime]
    /\ admitLog = <<>>

LimiterIs(rl) ==
    /\ rlNil = rl.nil
    /\ tokens = rl.tokens
    /\ maxTokens = rl.maxTokens
    /\ refillRate = rl.refillRate
    /\ lastRefill = rl.lastRefill

\* a nil *http.Response
NilResponse == [nil |-> TRUE, status |-> 0]

\* no CredentialEncryption in use
NoDecrypt == [text |-> <<>>, err |-> "pending"]


\* no request handed to a signer
NoRequest == [method |-> <<>>, path |-> <<>>, query |-> <<>>, authorization |-> <<>>,
              contentType |-> <<>>, xTimestamp |-> <<>>, body |-> <<>>]


\* no CredentialManager in use: an empty map and no goroutine
NoCall == [name |-> "none", key |-> "", pw |-> "", username |-> <<>>, password |-> <<>>,
           n1 |-> 0, n2 |-> 0]
NoReturn == [username |-> <<>>, password |-> <<>>, found |-> FALSE, err |-> "pending"]


(***************************************************************************)
(* The components named in parts are as constructed, with nothing in       *)
(* progress: "limiter" a nil limiter and no caller, "retry" no RoundTrip   *)
(* call, "chain" a Client built from the default configuration and no      *)
(* request, "signing" no request handed to a signer, "vault" no            *)
(* CredentialEncryption in use, "batch" no run of requests, no makeRequest *)
(* call and no APIError, "credentials" an empty map and no goroutine.      *)
(***************************************************************************)
Idle(parts) ==
    /\ IF "limiter" \in parts
       THEN /\ rlConfig = [isNil |-> TRUE, rps |-> 0, burst |-> 0, enabled |-> FALSE]
           /\ LimiterIs(NilLimiter)
           /\ LimiterCallersIdle
       ELSE TRUE
    /\ IF "retry" \in parts
       THEN /\ rtMaxRetries = 0
           /\ rtRetryDelay = 0
           /\ script = <<>>
           /\ rtpc = "idle"
           /\ ri = 0
           /\ rtResp = NilResponse
           /\ rtErr = FALSE
           /\ requests = 0
           /\ sleeps = <<>>
           /\ rtBody = [nil |-> TRUE, data |-> <<>>]
           /\ reqBody = [nil |-> TRUE, data |-> <<>>]
       ELSE TRUE
    /\ IF "chain" \in parts
       THEN /\ chain = <<>>
           /\ base = "default"
           /\ cRateLimiter = FALSE
           /\ cRequestSigner = FALSE
           /\ cfgRateLimit = "disabled"
           /\ configOps = 0
           /\ reconf = [pc |-> "idle", prev |-> <<>>]
           /\ rqpc = "idle"
           /\ rqKind = "none"
           /\ rqPos = 0
           /\ rqIdx = <<>>
           /\ rqResp = NilResponse
           /\ rqErr = "nil"
           /\ rqCtxDone = FALSE
           /\ rqWaited = 0
           /\ rqSigned = "none"
           /\ attempts = 0
           /\ rqSleeps = 0
       ELSE TRUE
    /\ IF "signing" \in parts
       THEN /\ rsNil = TRUE
           /\ sreq = NoRequest
           /\ xSignature = <<>>
           /\ signedReq = NoRequest
           /\ tampered = "none"
           /\ verified = "none"
       ELSE TRUE
    /\ IF "vault" \in parts
       THEN /\ cePassword = ""
           /\ plaintext = <<>>
           /\ sealed = <<>>
           /\ ciphertext = <<>>
           /\ alteration = "idle"
           /\ decPassword = ""
           /\ decResult = NoDecrypt
       ELSE TRUE
    /\ IF "batch" \in parts
       THEN /\ bpc = "ready"
           /\ bKind = "none"
           /\ bSent = 0
           /\ bSlept = FALSE
           /\ bLog = <<>>
           /\ mr = [pc |-> "idle", body |-> "nil", err |-> "pending", sent |-> <<>>]
           /\ apiError = [StatusCode |-> 0, client |-> "uncalled", server |-> "uncalled"]
       ELSE TRUE
    /\ IF "credentials" \in parts
       THEN /\ cmStore = {}
           /\ cmLast = {}
           /\ cmpc = [p \in Callers |-> "off"]
           /\ cmOp = [p \in Callers |-> NoCall]
           /\ cmRes = [p \in Callers |-> NoReturn]
           /\ cmFault = FALSE
           /\ cmClient = [custom |-> FALSE, pw |-> ""]
       ELSE TRUE

\* NewRateLimiter(config) for a config of the given set
LimiterInitFrom(configs) ==
    /\ now = StartTime
    /\ NewAuthManager
    /\ \E config \in configs :
          /\ rlConfig = config
          /\ LimiterIs(NewRateLimiter(config, StartTime))
    /\ LimiterCallersIdle
    /\ Idle({"retry", "chain", "signing", "vault", "batch", "credentials"})


\* a caller starts Allow() or Wait(ctx); on a nil limiter both return at once
LimiterCall(p, op) ==
    /\ lpc[p] = "idle"
    /\ lop' = [lop EXCEPT ![p] = op]
    /\ IF rlNil
       THEN /\ lpc' = [lpc EXCEPT ![p] = "done"]
            /\ lres' = [lres EXCEPT ![p] = IF op = "Allow" THEN "true" ELSE "nil"]
       ELSE /\ lpc' = [lpc EXCEPT ![p] = "lock"]
            /\ UNCHANGED lres
    /\ UNCHANGED <<now, tokens, maxTokens, refillRate, lastRefill, rlConfig, rlNil, rlMutex,
                   lnow, lok, ctxDone, sleepLeft, admitLog>>
    /\ UNCHANGED <<authVars, retryVars, chainVars, signVars, vaultVars, batchVars, credVars>>

AllowLock_NoMutex(p) ==
    /\ lpc[p] = "lock"
    /\ rlMutex' = p
    /\ lnow' = [lnow EXCEPT ![p] = now]
    /\ tokens' = Refill(tokens, now - lastRefill)
    /\ lastRefill' = now
    /\ lok' = [lok EXCEPT ![p] = (Refill(tokens, now - lastRefill) >= TokenScale)]
    /\ lpc' = [lpc EXCEPT ![p] = "spend"]
    /\ UNCHANGED <<now, maxTokens, refillRate, rlConfig, rlNil, lop, lres, ctxDone,
                   sleepLeft, admitLog>>
    /\ UNCHANGED <<authVars, retryVars, chainVars, signVars, vaultVars, batchVars, credVars>>

\* Allow: rl.mutex.Lock(), now := time.Now(), the refill, rl.lastRefill = now,
\* and the test rl.tokens >= 1.0
AllowLock(p) ==
    /\ lpc[p] = "lock"
    /\ rlMutex = 0
    /\ rlMutex' = p
    /\ lnow' = [lnow EXCEPT ![p] = now]
    /\ tokens' = Refill(tokens, now - lastRefill)
    /\ lastRefill' = now
    /\ lok' = [lok EXCEPT ![p] = (Refill(tokens, now - lastRefill) >= TokenScale)]
    /\ lpc' = [lpc EXCEPT ![p] = "spend"]
    /\ UNCHANGED <<now, maxTokens, refillRate, rlConfig, rlNil, lop, lres, ctxDone,
                   sleepLeft, admitLog>>
    /\ UNCHANGED <<authVars, retryVars, chainVars, signVars, vaultVars, batchVars, credVars>>

AllowSpend_NoCheck(p) ==
    /\ lpc[p] = "spend"
    /\ rlMutex' = 0
    /\ IF lok[p] \/ lop[p] = "Allow"
       THEN /\ tokens' = tokens - TokenScale
            /\ admitLog' = Append(admitLog, lnow[p])
            /\ lpc' = [lpc EXCEPT ![p] = "done"]
            /\ lres' = [lres EXCEPT ![p] = IF lop[p] = "Allow" THEN "true" ELSE "nil"]
       ELSE /\ UNCHANGED <<tokens, admitLog>>
            /\ IF lop[p] = "Allow"
               THEN /\ lpc' = [lpc EXCEPT ![p] = "done"]
                    /\ lres' = [lres EXCEPT ![p] = "false"]
               ELSE /\ lpc' = [lpc EXCEPT ![p] = "compute"]
                    /\ UNCHANGED lres
    /\ lok' = [lok EXCEPT ![p] = FALSE]
    /\ lnow' = [lnow EXCEPT ![p] = ZeroTime]
    /\ UNCHANGED <<now, maxTokens, refillRate, lastRefill, rlConfig, rlNil, lop, ctxDone,
                   sleepLeft>>
    /\ UNCHANGED <<authVars, retryVars, chainVars, signVars, vaultVars, batchVars, credVars>>

\* Allow: rl.tokens -= 1.0 and return true, or return false; the deferred
\* Unlock.  A Wait whose Allow admitted returns nil, one whose Allow denied
\* goes on to compute its wait time.
AllowSpend(p) ==
    /\ lpc[p] = "spend"
    /\ rlMutex' = 0
    /\ IF lok[p]
       THEN /\ tokens' = tokens - TokenScale
            /\ admitLog' = Append(admitLog, lnow[p])
            /\ lpc' = [lpc EXCEPT ![p] = "done"]
            /\ lres' = [lres EXCEPT ![p] = IF lop[p] = "Allow" THEN "true" ELSE "nil"]
       ELSE /\ UNCHANGED <<tokens, admitLog>>
            /\ IF lop[p] = "Allow"
               THEN /\ lpc' = [lpc EXCEPT ![p] = "done"]
                    /\ lres' = [lres EXCEPT ![p] = "false"]
               ELSE /\ lpc' = [lpc EXCEPT ![p] = "compute"]
                    /\ UNCHANGED lres
    /\ lok' = [lok EXCEPT ![p] = FALSE]
    /\ lnow' = [lnow EXCEPT ![p] = ZeroTime]
    /\ UNCHANGED <<now, maxTokens, refillRate, lastRefill, rlConfig, rlNil, lop, ctxDone,
                   sleepLeft>>
    /\ UNCHANGED <<authVars, retryVars, chainVars, signVars, vaultVars, batchVars, credVars>>

\* Wait: waitTime = (1.0 - rl.tokens) / rl.refillRate seconds, read under the
\* mutex; above 1 ms it becomes 10 ms (one tick), else the timer fires within
\* the tick
WaitCompute(p) ==
    /\ lpc[p] = "compute"
    /\ rlMutex = 0
    /\ sleepLeft' = [sleepLeft EXCEPT ![p] =
                         IF (TokenScale - tokens) * PollIntervalMs
                                > refillRate * PollThresholdMs
                         THEN 1
                         ELSE 0]
    /\ lpc' = [lpc EXCEPT ![p] = "sleep"]
    /\ UNCHANGED <<now, tokens, maxTokens, refillRate, lastRefill, rlConfig, rlNil, rlMutex,
                   lop, lnow, lok, lres, ctxDone, admitLog>>
    /\ UNCHANGED <<authVars, retryVars, chainVars, signVars, vaultVars, batchVars, credVars>>

\* Wait: case <-time.After(waitTime): on to the next iteration
WaitWake(p) ==
    /\ lpc[p] = "sleep"
    /\ sleepLeft[p] = 0
    /\ lpc' = [lpc EXCEPT ![p] = "lock"]
    /\ UNCHANGED <<now, tokens, maxTokens, refillRate, lastRefill, rlConfig, rlNil, rlMutex,
                   lop, lnow, lok, lres, ctxDone, sleepLeft, admitLog>>
    /\ UNCHANGED <<authVars, retryVars, chainVars, signVars, vaultVars, batchVars, credVars>>

\* Wait: case <-ctx.Done(): return ctx.Err()
WaitCancelled(p) ==
    /\ lpc[p] = "sleep"
    /\ ctxDone[p]
    /\ lpc' = [lpc EXCEPT ![p] = "done"]
    /\ lres' = [lres EXCEPT ![p] = "ctxerr"]
    /\ UNCHANGED <<now, tokens, maxTokens, refillRate, lastRefill, rlConfig, rlNil, rlMutex,
                   lop, lnow, lok, ctxDone, sleepLeft, admitLog>>
    /\ UNCHANGED <<authVars, retryVars, chainVars, signVars, vaultVars, batchVars, credVars>>

\* the context handed to a Wait in progress is cancelled
CancelContext(p) ==
    /\ lop[p] = "Wait"
    /\ lpc[p] # "done"
    /\ ~ctxDone[p]
    /\ ctxDone' = [ctxDone EXCEPT ![p] = TRUE]
    /\ UNCHANGED <<now, tokens, maxTokens, refillRate, lastRefill, rlConfig, rlNil, rlMutex,
                   lpc, lop, lnow, lok, lres, sleepLeft, admitLog>>
    /\ UNCHANGED <<authVars, retryVars, chainVars, signVars, vaultVars, batchVars, credVars>>

GetAvailableTokens_WritesBack(p) ==
    /\ lpc[p] = "idle"
    /\ rlMutex = 0
    /\ lop' = [lop EXCEPT ![p] = "GetAvailableTokens"]
    /\ lres' = [lres EXCEPT ![p] =
                   IF rlNil THEN ToString(0 - 1)
                   ELSE ToString(Refill(tokens, now - lastRefill))]
    /\ tokens' = IF rlNil THEN tokens ELSE Refill(tokens, now - lastRefill)
    /\ lpc' = [lpc EXCEPT ![p] = "done"]
    /\ UNCHANGED <<now, maxTokens, refillRate, lastRefill, rlConfig, rlNil, rlMutex,
                   lnow, lok, ctxDone, sleepLeft, admitLog>>
    /\ UNCHANGED <<authVars, retryVars, chainVars, signVars, vaultVars, batchVars, credVars>>

\* GetAvailableTokens, from Lock to the deferred Unlock: -1 on a nil limiter,
\* else the refill formula on a local; the result is kept as it prints
\* (in TokenScale units)
GetAvailableTokens(p) ==
    /\ lpc[p] = "idle"
    /\ rlMutex = 0
    /\ lop' = [lop EXCEPT ![p] = "GetAvailableTokens"]
    /\ lres' = [lres EXCEPT ![p] =
                   IF rlNil THEN ToString(0 - 1)
                   ELSE ToString(Refill(tokens, now - lastRefill))]
    /\ lpc' = [lpc EXCEPT ![p] = "done"]
    /\ UNCHANGED <<now, tokens, maxTokens, refillRate, lastRefill, rlConfig, rlNil, rlMutex,
                   lnow, lok, ctxDone, sleepLeft, admitLog>>
    /\ UNCHANGED <<authVars, retryVars, chainVars, signVars, vaultVars, batchVars, credVars>>

\* the caller takes the result and may call again
LimiterReturn(p) ==
    /\ lpc[p] = "done"
    /\ lpc' = [lpc EXCEPT ![p] = "idle"]
    /\ lop' = [lop EXCEPT ![p] = "none"]
    /\ lres' = [lres EXCEPT ![p] = "none"]
    /\ ctxDone' = [ctxDone EXCEPT ![p] = FALSE]
    /\ sleepLeft' = [sleepLeft EXCEPT ![p] = ZeroTime]
    /\ UNCHANGED <<now, tokens, maxTokens, refillRate, lastRefill, rlConfig, rlNil, rlMutex,
                   lnow, lok, admitLog>>
    /\ UNCHANGED <<authVars, retryVars, chainVars, signVars, vaultVars, batchVars, credVars>>

\* the wall clock advances
LimiterTick ==
    /\ now < StartTime + MaxTicks
    /\ now' = now + 1
    /\ sleepLeft' = [p \in LimiterCallers |->
                       IF sleepLeft[p] > 0 THEN sleepLeft[p] - 1 ELSE 0]
    /\ UNCHANGED <<tokens, maxTokens, refillRate, lastRefill, rlConfig, rlNil, rlMutex,
                   lpc, lop, lnow, lok, lres, ctxDone, admitLog>>
    /\ UNCHANGED <<authVars, retryVars, chainVars, signVars, vaultVars, batchVars, credVars>>

LimiterNext ==
    \/ \E p \in LimiterCallers : \E op \in {"Allow", "Wait"} : LimiterCall(p, op)
    \/ \E p \in LimiterCallers : AllowLock(p)
    \/ \E p \in LimiterCallers : AllowSpend(p)
    \/ \E p \in LimiterCallers : WaitCompute(p)
    \/ \E p \in LimiterCallers : WaitWake(p)
    \/ \E p \in LimiterCallers : WaitCancelled(p)
    \/ \E p \in LimiterCallers : CancelContext(p)
    \/ \E p \in LimiterCallers : GetAvailableTokens(p)
    \/ \E p \in LimiterCallers : LimiterReturn(p)
    \/ LimiterTick

SpecLimiter == LimiterInitFrom(RateLimitConfigs) /\ [][LimiterNext]_vars

\* the same for every BurstSize the code accepts: SetRateLimit and
\* NewRateLimiter check neither its sign nor that of RequestsPerSecond
SpecLimiterAnyBurst ==
    LimiterInitFrom([isNil : {FALSE}, rps : 1..MaxRate, burst : (0 - 1)..MaxBurst,
                     enabled : {TRUE}])
        /\ [][LimiterNext]_vars

(***************************************************************************)
(* The limiter over a clock that never stops.  Allow reads the clock only  *)
(* as now.Sub(rl.lastRefill): once now has reached StartTime + MaxTicks a  *)
(* further tick moves lastRefill (and the reading a caller holds) back by  *)
(* one instead of moving now forward, unless the refill is at maxTokens    *)
(* already, where a longer elapsed time refills the same.  The log of      *)
(* admissions, whose readings are of the clock before the shift, is        *)
(* emptied.                                                                *)
(***************************************************************************)
LimiterClock ==
    LET moved == now = StartTime + MaxTicks /\ Refill(tokens, now - lastRefill) < maxTokens
    IN  /\ ~rlNil
        /\ now' = IF now < StartTime + MaxTicks THEN now + 1 ELSE now
        /\ lastRefill' = IF moved THEN lastRefill - 1 ELSE lastRefill
        /\ lnow' = [p \in LimiterCallers |->
                       IF moved /\ lpc[p] = "spend" THEN lnow[p] - 1 ELSE lnow[p]]
        /\ admitLog' = IF now < StartTime + MaxTicks THEN admitLog ELSE <<>>
        /\ sleepLeft' = [p \in LimiterCallers |->
                           IF sleepLeft[p] > 0 THEN sleepLeft[p] - 1 ELSE 0]
        /\ UNCHANGED <<tokens, maxTokens, refillRate, rlConfig, rlNil, rlMutex, lpc, lop,
                       lok, lres, ctxDone>>
        /\ UNCHANGED <<authVars, retryVars, chainVars, signVars, vaultVars, batchVars,
                       credVars>>

\* callers of Allow and of Wait with contexts that are never cancelled
LimiterLiveNext ==
    \/ \E p \in LimiterCallers : \E op \in {"Allow", "Wait"} : LimiterCall(p, op)
    \/ \E p \in LimiterCallers : AllowLock(p)
    \/ \E p \in LimiterCallers : AllowSpend(p)
    \/ \E p \in LimiterCallers : WaitCompute(p)
    \/ \E p \in LimiterCallers : WaitWake(p)
    \/ \E p \in LimiterCallers : LimiterReturn(p)
    \/ LimiterClock

\* an enabled limiter with RequestsPerSecond > 0 and BurstSize >= 1, under a
\* fair scheduler: the clock runs on, a goroutine that can take a step takes
\* it, and a goroutine waiting for rl.mutex gets it (sync.Mutex hands the
\* lock to a waiter that has waited for more than 1 ms)
SpecLimiterLive ==
    /\ LimiterInitFrom([isNil : {FALSE}, rps : 1..MaxRate, burst : 1..MaxBurst,
                        enabled : {TRUE}])
    /\ [][LimiterLiveNext]_vars
    /\ WF_vars(LimiterClock)
    /\ \A p \in LimiterCallers :
          /\ SF_vars(AllowLock(p))
          /\ SF_vars(WaitCompute(p))
          /\ WF_vars(AllowSpend(p) \/ WaitWake(p))

(***************************************************************************)
(* retryTransport.RoundTrip.  The inner transport answers its k-th call    *)
(* with script[k]: a transport error, or a response with a status code.    *)
(***************************************************************************)
Response(code) == [nil |-> FALSE, status |-> code]
Outcomes ==
    {[err |-> TRUE, resp |-> NilResponse]}
    \cup {[err |-> FALSE, resp |-> Response(c)] : c \in {200, 400, 499, 500, 503}}

isFinal_Below400(o) == ~o.err /\ o.resp.status < 400

\* RoundTrip: "if err == nil && resp.StatusCode < 500 { return resp, nil }"
isFinal(o) == ~o.err /\ o.resp.status < 500

BackoffDelay_Constant(d, i) == d

\* RoundTrip: rt.retryDelay * time.Duration(1 << uint(i))
BackoffDelay(d, i) == d * 2 ^ i

\* a retryTransport as SetRetryPolicy builds it, and RoundTrip entered:
\* "var resp *http.Response; var err error", i := 0
RetryInit(outcomes, bodies) ==
    /\ now = StartTime
    /\ NewAuthManager
    /\ Idle({"limiter"})
    /\ rtMaxRetries \in -1..MaxRetriesBound
    /\ rtRetryDelay \in 0..MaxDelay
    /\ script \in [1..(MaxRetriesBound + 1) -> outcomes]
    /\ rtpc = "loop"
    /\ ri = 0
    /\ rtResp = NilResponse
    /\ rtErr = FALSE
    /\ requests = 0
    /\ sleeps = <<>>
    /\ rtBody \in bodies
    /\ reqBody = rtBody
    /\ Idle({"chain", "signing", "vault", "batch", "credentials"})

RoundTripAttempt_WrapsExhaustion ==
    /\ rtpc = "loop"
    /\ IF ri <= rtMaxRetries
       THEN LET o == script[requests + 1] IN
            /\ requests' = requests + 1
            /\ rtResp' = IF ~isFinal(o) /\ ri = rtMaxRetries THEN NilResponse ELSE o.resp
            /\ rtErr' = IF ~isFinal(o) /\ ri = rtMaxRetries THEN TRUE ELSE o.err
            /\ rtpc' = IF isFinal(o) \/ ri = rtMaxRetries THEN "done" ELSE "sleep"
            /\ \E read \in 0..Len(reqBody.data) :
                 reqBody' = IF reqBody.nil \/ (~isFinal(o) /\ ri # rtMaxRetries)
                            THEN reqBody
                            ELSE [nil |-> FALSE,
                                  data |-> SubSeq(reqBody.data, read + 1, Len(reqBody.data))]
       ELSE /\ rtpc' = "done"
            /\ UNCHANGED <<requests, rtResp, rtErr, reqBody>>
    /\ UNCHANGED <<now, rtMaxRetries, rtRetryDelay, script, ri, sleeps, rtBody>>
    /\ UNCHANGED <<authVars, limiterVars, chainVars, signVars, vaultVars, batchVars, credVars>>

RoundTripAttempt_NoBodyReset ==
    /\ rtpc = "loop"
    /\ IF ri <= rtMaxRetries
       THEN LET o == script[requests + 1] IN
            /\ requests' = requests + 1
            /\ rtResp' = o.resp
            /\ rtErr' = IF isFinal(o) THEN FALSE ELSE o.err
            /\ rtpc' = IF isFinal(o) \/ ri = rtMaxRetries THEN "done" ELSE "sleep"
            /\ \E read \in 0..Len(reqBody.data) :
                 reqBody' = IF reqBody.nil THEN reqBody
                            ELSE [nil |-> FALSE,
                                  data |-> SubSeq(reqBody.data, read + 1, Len(reqBody.data))]
       ELSE /\ rtpc' = "done"
            /\ UNCHANGED <<requests, rtResp, rtErr, reqBody>>
    /\ UNCHANGED <<now, rtMaxRetries, rtRetryDelay, script, ri, sleeps, rtBody>>
    /\ UNCHANGED <<authVars, limiterVars, chainVars, signVars, vaultVars, batchVars, credVars>>

\* RoundTrip: one pass of the loop up to the return, the break or the sleep;
\* the loop condition i <= rt.maxRetries failing returns resp, err.  The
\* body is read whole from what is left of req.Body and put back; the inner
\* transport reads some of it; before the sleep it is put back again.
RoundTripAttempt ==
    /\ rtpc = "loop"
    /\ IF ri <= rtMaxRetries
       THEN LET o == script[requests + 1] IN
            /\ requests' = requests + 1
            /\ rtResp' = o.resp
            /\ rtErr' = IF isFinal(o) THEN FALSE ELSE o.err
            /\ rtpc' = IF isFinal(o) \/ ri = rtMaxRetries THEN "done" ELSE "sleep"
            /\ \E read \in 0..Len(reqBody.data) :
                 reqBody' = IF reqBody.nil \/ (~isFinal(o) /\ ri # rtMaxRetries)
                            THEN reqBody
                            ELSE [nil |-> FALSE,
                                  data |-> SubSeq(reqBody.data, read + 1, Len(reqBody.data))]
       ELSE /\ rtpc' = "done"
            /\ UNCHANGED <<requests, rtResp, rtErr, reqBody>>
    /\ UNCHANGED <<now, rtMaxRetries, rtRetryDelay, script, ri, sleeps, rtBody>>
    /\ UNCHANGED <<authVars, limiterVars, chainVars, signVars, vaultVars, batchVars, credVars>>

\* RoundTrip: time.Sleep(rt.retryDelay * time.Duration(1<<uint(i))), then i++
RoundTripSleep ==
    /\ rtpc = "sleep"
    /\ sleeps' = Append(sleeps, BackoffDelay(rtRetryDelay, ri))
    /\ ri' = ri + 1
    /\ rtpc' = "loop"
    /\ UNCHANGED <<now, rtMaxRetries, rtRetryDelay, script, rtResp, rtErr, requests,
                   rtBody, reqBody>>
    /\ UNCHANGED <<authVars, limiterVars, chainVars, signVars, vaultVars, batchVars, credVars>>

RetryNext ==
    \/ RoundTripAttempt
    \/ RoundTripSleep

SpecRetry == RetryInit(Outcomes, {[nil |-> TRUE, data |-> <<>>]}) /\ [][RetryNext]_vars

\* the inner transport answers every call and time.Sleep returns, so a
\* RoundTrip in progress keeps taking steps
SpecRetryLive == SpecRetry /\ WF_vars(RetryNext)

\* the same call for a request with a body, over a transport that fails,
\* answers 200 or answers 500
SpecRetryBody ==
    /\ RetryInit({o \in Outcomes : o.err \/ o.resp.status \in {200, 500}},
                 {[nil |-> TRUE, data |-> <<>>]}
                     \cup {[nil |-> FALSE, data |-> [k \in 1..n |-> k]] : n \in 0..MaxBodyLen})
    /\ [][RetryNext]_vars

GetToken_AnyCachedToken(p) ==
    /\ pc[p] = "idle"
    /\ calls < MaxCalls
    /\ calls' = calls + 1
    /\ IF token # EmptyString
       THEN /\ pc' = [pc EXCEPT ![p] = "done"]
            /\ result' = [result EXCEPT ![p] = Returned(token)]
       ELSE /\ pc' = [pc EXCEPT ![p] = "lockwait"]
            /\ UNCHANGED result
    /\ UNCHANGED <<now, token, expiresAt, refreshMutex, loginResp, waitedOnOK,
                   loginsSent>>
    /\ UNCHANGED <<clearedInFlight, mutex, local>>
    /\ UNCHANGED <<limiterVars, retryVars, chainVars, signVars, vaultVars, batchVars, credVars>>

(***************************************************************************)
(* AuthManager: operations.                                                *)
(***************************************************************************)
\* GetToken: the fast path under the read lock, else on to refreshToken
GetToken(p) ==
    /\ pc[p] = "idle"
    /\ calls < MaxCalls
    /\ calls' = calls + 1
    /\ IF isTokenValid
       THEN /\ pc' = [pc EXCEPT ![p] = "done"]
            /\ result' = [result EXCEPT ![p] = Returned(token)]
       ELSE /\ pc' = [pc EXCEPT ![p] = "lockwait"]
            /\ UNCHANGED result
    /\ UNCHANGED <<now, token, expiresAt, refreshMutex, loginResp, waitedOnOK,
                   loginsSent>>
    /\ UNCHANGED <<clearedInFlight, mutex, local>>
    /\ UNCHANGED <<limiterVars, retryVars, chainVars, signVars, vaultVars, batchVars, credVars>>

refreshLock_NoMutex(p) ==
    /\ pc[p] = "lockwait"
    /\ refreshMutex' = p
    /\ pc' = [pc EXCEPT ![p] = "recheck"]
    /\ UNCHANGED <<now, token, expiresAt, result, loginResp, waitedOnOK,
                   loginsSent, calls>>
    /\ UNCHANGED <<clearedInFlight, mutex, local>>
    /\ UNCHANGED <<limiterVars, retryVars, chainVars, signVars, vaultVars, batchVars, credVars>>

\* refreshToken: a.refreshMutex.Lock()
refreshLock(p) ==
    /\ pc[p] = "lockwait"
    /\ refreshMutex = 0
    /\ refreshMutex' = p
    /\ pc' = [pc EXCEPT ![p] = "recheck"]
    /\ UNCHANGED <<now, token, expiresAt, result, loginResp, waitedOnOK,
                   loginsSent, calls>>
    /\ UNCHANGED <<clearedInFlight, mutex, local>>
    /\ UNCHANGED <<limiterVars, retryVars, chainVars, signVars, vaultVars, batchVars, credVars>>

refreshRecheck_NoDoubleCheck(p) ==
    /\ pc[p] = "recheck"
    /\ pc' = [pc EXCEPT ![p] = "send"]
    /\ UNCHANGED <<now, token, expiresAt, refreshMutex, result, loginResp,
                   waitedOnOK, loginsSent, calls>>
    /\ UNCHANGED <<clearedInFlight, mutex, local>>
    /\ UNCHANGED <<limiterVars, retryVars, chainVars, signVars, vaultVars, batchVars, credVars>>

\* refreshToken: the double check under the read lock
refreshRecheck(p) ==
    /\ pc[p] = "recheck"
    /\ IF isTokenValid
       THEN /\ pc' = [pc EXCEPT ![p] = "done"]
            /\ result' = [result EXCEPT ![p] = Returned(token)]
            /\ refreshMutex' = 0
       ELSE /\ pc' = [pc EXCEPT ![p] = "send"]
            /\ UNCHANGED <<result, refreshMutex>>
    /\ UNCHANGED <<now, token, expiresAt, loginResp, waitedOnOK, loginsSent,
                   calls>>
    /\ UNCHANGED <<clearedInFlight, mutex, local>>
    /\ UNCHANGED <<limiterVars, retryVars, chainVars, signVars, vaultVars, batchVars, credVars>>

\* refreshToken: build the login request and hand it to httpClient.Do;
\* http.NewRequestWithContext fails on a BaseURL that does not parse
loginSend(p) ==
    /\ pc[p] = "send"
    /\ \E built \in BOOLEAN :
         IF built
         THEN /\ pc' = [pc EXCEPT ![p] = "inflight"]
              /\ loginsSent' = loginsSent + 1
              /\ UNCHANGED <<result, refreshMutex, loginResp>>
         ELSE /\ pc' = [pc EXCEPT ![p] = "done"]
              /\ result' = [result EXCEPT ![p] = Failed("failed to create login request")]
              /\ loginResp' = [loginResp EXCEPT ![p] = "norequest"]
              /\ refreshMutex' = 0
              /\ UNCHANGED loginsSent
    /\ UNCHANGED <<now, token, expiresAt, waitedOnOK, calls>>
    /\ clearedInFlight' = FALSE
    /\ UNCHANGED <<mutex, local>>
    /\ UNCHANGED <<limiterVars, retryVars, chainVars, signVars, vaultVars, batchVars, credVars>>

loginReceive_ClearOnFailure(p, r) ==
    /\ pc[p] = "inflight"
    /\ pc' = [pc EXCEPT ![p] = "done"]
    /\ refreshMutex' = 0
    /\ loginResp' = [loginResp EXCEPT ![p] = r.kind]
    /\ IF r.kind = "ok"
       THEN LET parsed == parseTokenExpiration(r.tok) IN
            /\ token' = r.tok
            /\ expiresAt' = IF parsed.ok THEN parsed.exp ELSE now + FallbackLifetime
            /\ result' = [result EXCEPT ![p] = Returned(r.tok)]
            /\ waitedOnOK' = [q \in Callers |->
                                waitedOnOK[q] \/ (q # p /\ pc[q] = "lockwait")]
       ELSE /\ token' = EmptyString
            /\ expiresAt' = ZeroTime
            /\ result' = [result EXCEPT ![p] = Failed(loginError(r.kind))]
            /\ UNCHANGED waitedOnOK
    /\ UNCHANGED <<now, loginsSent, calls>>
    /\ clearedInFlight' = FALSE
    /\ UNCHANGED <<mutex, local>>
    /\ UNCHANGED <<limiterVars, retryVars, chainVars, signVars, vaultVars, batchVars, credVars>>

\* refreshToken: the response of httpClient.Do arrives and is handled
loginReceive(p, r) ==
    /\ pc[p] = "inflight"
    /\ pc' = [pc EXCEPT ![p] = "done"]
    /\ refreshMutex' = 0
    /\ loginResp' = [loginResp EXCEPT ![p] = r.kind]
    /\ IF r.kind = "ok"
       THEN LET parsed == parseTokenExpiration(r.tok) IN
            /\ token' = r.tok
            /\ expiresAt' = IF parsed.ok THEN parsed.exp ELSE now + FallbackLifetime
            /\ result' = [result EXCEPT ![p] = Returned(r.tok)]
            /\ waitedOnOK' = [q \in Callers |->
                                waitedOnOK[q] \/ (q # p /\ pc[q] = "lockwait")]
       ELSE /\ result' = [result EXCEPT ![p] = Failed(loginError(r.kind))]
            /\ UNCHANGED <<token, expiresAt, waitedOnOK>>
    /\ UNCHANGED <<now, loginsSent, calls>>
    /\ clearedInFlight' = FALSE
    /\ UNCHANGED <<mutex, local>>
    /\ UNCHANGED <<limiterVars, retryVars, chainVars, signVars, vaultVars, batchVars, credVars>>

\* the caller takes GetToken's result and may call again
GetTokenReturn(p) ==
    /\ pc[p] = "done"
    /\ pc' = [pc EXCEPT ![p] = "idle"]
    /\ result' = [result EXCEPT ![p] = [tok |-> EmptyString, err |-> "pending"]]
    /\ loginResp' = [loginResp EXCEPT ![p] = "none"]
    /\ waitedOnOK' = [waitedOnOK EXCEPT ![p] = FALSE]
    /\ UNCHANGED <<now, token, expiresAt, refreshMutex, loginsSent, calls>>
    /\ UNCHANGED <<clearedInFlight, mutex, local>>
    /\ UNCHANGED <<limiterVars, retryVars, chainVars, signVars, vaultVars, batchVars, credVars>>

\* AuthManager.ClearToken, from any goroutine
ClearToken ==
    /\ token' = EmptyString
    /\ expiresAt' = ZeroTime
    /\ UNCHANGED <<now, refreshMutex, pc, result, loginResp, waitedOnOK,
                   loginsSent, calls>>
    /\ clearedInFlight' = (clearedInFlight \/ \E p \in Callers : pc[p] = "inflight")
    /\ UNCHANGED <<mutex, local>>
    /\ UNCHANGED <<limiterVars, retryVars, chainVars, signVars, vaultVars, batchVars, credVars>>

\* the wall clock advances
AuthTick ==
    /\ now < MaxNow
    /\ now' = now + 1
    /\ UNCHANGED <<authVars, retryVars, chainVars, signVars, vaultVars, batchVars, credVars>>
    /\ UNCHANGED <<limiterVars, retryVars, chainVars, signVars, vaultVars, batchVars, credVars>>

AuthInit ==
    /\ now = StartTime
    /\ NewAuthManager
    /\ Idle({"limiter", "retry", "chain", "signing", "vault", "batch", "credentials"})

AuthNext ==
    \/ \E p \in Callers : GetToken(p)
    \/ \E p \in Callers : refreshLock(p)
    \/ \E p \in Callers : refreshRecheck(p)
    \/ \E p \in Callers : loginSend(p)
    \/ \E p \in Callers : \E r \in LoginResponses : loginReceive(p, r)
    \/ \E p \in Callers : GetTokenReturn(p)
    \/ ClearToken
    \/ AuthTick

SpecAuth == AuthInit /\ [][AuthNext]_vars

(***************************************************************************)
(* AuthManager again, with a.mutex (the sync.RWMutex on token, expiresAt)  *)
(* explicit: taking it and releasing it are steps of their own, so a state *)
(* shows who holds the lock while every other goroutine stands where it    *)
(* stands.  A goroutine that has called Lock and waits holds back new      *)
(* readers, as sync.RWMutex does.                                          *)
(***************************************************************************)
\* a.mutex.RLock() returns, in GetToken or in refreshToken's double check
mutexRLock(p) ==
    /\ pc[p] \in {"idle", "recheck"}
    /\ mutex.writer = 0
    /\ mutex.clearing = "off"
    /\ \A q \in Callers : pc[q] # "wlock"
    /\ mutex' = [mutex EXCEPT !.readers = @ \cup {p}]
    /\ IF pc[p] = "idle"
       THEN /\ calls < MaxCalls
            /\ calls' = calls + 1
            /\ pc' = [pc EXCEPT ![p] = "fastcheck"]
       ELSE /\ pc' = [pc EXCEPT ![p] = "doublecheck"]
            /\ UNCHANGED calls
    /\ UNCHANGED <<now, token, expiresAt, refreshMutex, result, loginResp, waitedOnOK,
                   loginsSent, clearedInFlight, local>>
    /\ UNCHANGED <<limiterVars, retryVars, chainVars, signVars, vaultVars, batchVars, credVars>>
mutexRUnlock_KeepsReadLock(p) ==
    /\ pc[p] \in {"fastcheck", "doublecheck"}
    /\ IF isTokenValid
       THEN /\ pc' = [pc EXCEPT ![p] = "done"]
            /\ result' = [result EXCEPT ![p] = Returned(token)]
            /\ refreshMutex' = IF pc[p] = "doublecheck" THEN 0 ELSE refreshMutex
            /\ mutex' = [mutex EXCEPT !.readers = @ \ {p}]
       ELSE /\ pc' = [pc EXCEPT ![p] = IF pc[p] = "fastcheck" THEN "lockwait" ELSE "send"]
            /\ UNCHANGED <<result, refreshMutex, mutex>>
    /\ UNCHANGED <<now, token, expiresAt, loginResp, waitedOnOK, loginsSent, calls,
                   clearedInFlight, local>>
    /\ UNCHANGED <<limiterVars, retryVars, chainVars, signVars, vaultVars, batchVars, credVars>>
\* isTokenValid under the read lock, then a.mutex.RUnlock() on either branch
mutexRUnlock(p) ==
    /\ pc[p] \in {"fastcheck", "doublecheck"}
    /\ mutex' = [mutex EXCEPT !.readers = @ \ {p}]
    /\ IF isTokenValid
       THEN /\ pc' = [pc EXCEPT ![p] = "done"]
            /\ result' = [result EXCEPT ![p] = Returned(token)]
            /\ refreshMutex' = IF pc[p] = "doublecheck" THEN 0 ELSE refreshMutex
       ELSE /\ pc' = [pc EXCEPT ![p] = IF pc[p] = "fastcheck" THEN "lockwait" ELSE "send"]
            /\ UNCHANGED <<result, refreshMutex>>
    /\ UNCHANGED <<now, token, expiresAt, loginResp, waitedOnOK, loginsSent, calls,
                   clearedInFlight, local>>
    /\ UNCHANGED <<limiterVars, retryVars, chainVars, signVars, vaultVars, batchVars, credVars>>
\* refreshToken from the return of httpClient.Do up to the call of
\* a.mutex.Lock(): an error return, or the token and its expiry in locals
loginArrive(p, r) ==
    /\ pc[p] = "inflight"
    /\ loginResp' = [loginResp EXCEPT ![p] = r.kind]
    /\ clearedInFlight' = FALSE
    /\ IF r.kind = "ok"
       THEN LET parsed == parseTokenExpiration(r.tok) IN
            /\ pc' = [pc EXCEPT ![p] = "wlock"]
            /\ local' = [local EXCEPT ![p] =
                            [token |-> r.tok,
                             expiresAt |-> IF parsed.ok THEN parsed.exp
                                           ELSE now + FallbackLifetime]]
            /\ UNCHANGED <<result, refreshMutex>>
       ELSE /\ pc' = [pc EXCEPT ![p] = "done"]
            /\ result' = [result EXCEPT ![p] = Failed(loginError(r.kind))]
            /\ refreshMutex' = 0
            /\ UNCHANGED local
    /\ UNCHANGED <<now, token, expiresAt, waitedOnOK, loginsSent, calls, mutex>>
    /\ UNCHANGED <<limiterVars, retryVars, chainVars, signVars, vaultVars, batchVars, credVars>>
\* a.mutex.Lock() returns in refreshToken: no reader and no writer is left
mutexLock(p) ==
    /\ pc[p] = "wlock"
    /\ mutex.readers = {}
    /\ mutex.writer = 0
    /\ mutex.clearing # "store"
    /\ mutex' = [mutex EXCEPT !.writer = p]
    /\ pc' = [pc EXCEPT ![p] = "store"]
    /\ UNCHANGED <<now, token, expiresAt, refreshMutex, result, loginResp, waitedOnOK,
                   loginsSent, calls, clearedInFlight, local>>
    /\ UNCHANGED <<limiterVars, retryVars, chainVars, signVars, vaultVars, batchVars, credVars>>
\* a.token = token; a.expiresAt = expiresAt; a.mutex.Unlock(); return, with
\* the deferred a.refreshMutex.Unlock()
storeToken(p) ==
    /\ pc[p] = "store"
    /\ token' = local[p].token
    /\ expiresAt' = local[p].expiresAt
    /\ mutex' = [mutex EXCEPT !.writer = 0]
    /\ refreshMutex' = 0
    /\ result' = [result EXCEPT ![p] = Returned(local[p].token)]
    /\ pc' = [pc EXCEPT ![p] = "done"]
    /\ waitedOnOK' = [q \in Callers |-> waitedOnOK[q] \/ (q # p /\ pc[q] = "lockwait")]
    /\ local' = [local EXCEPT ![p] = [token |-> EmptyString, expiresAt |-> ZeroTime]]
    /\ UNCHANGED <<now, loginResp, loginsSent, calls, clearedInFlight>>
    /\ UNCHANGED <<limiterVars, retryVars, chainVars, signVars, vaultVars, batchVars, credVars>>
\* ClearToken in another goroutine: the call of a.mutex.Lock(), its return,
\* then the two writes and the deferred Unlock
ClearTokenSteps ==
    /\ CASE mutex.clearing = "off" ->
              /\ mutex' = [mutex EXCEPT !.clearing = "wlock"]
              /\ UNCHANGED <<token, expiresAt, clearedInFlight>>
         [] mutex.clearing = "wlock" ->
              /\ mutex.readers = {}
              /\ mutex.writer = 0
              /\ mutex' = [mutex EXCEPT !.clearing = "store"]
              /\ UNCHANGED <<token, expiresAt, clearedInFlight>>
         [] mutex.clearing = "store" ->
              /\ token' = EmptyString
              /\ expiresAt' = ZeroTime
              /\ mutex' = [mutex EXCEPT !.clearing = "off"]
              /\ clearedInFlight' =
                     (clearedInFlight \/ \E p \in Callers : pc[p] = "inflight")
    /\ UNCHANGED <<now, refreshMutex, pc, result, loginResp, waitedOnOK, loginsSent,
                   calls, local>>
    /\ UNCHANGED <<limiterVars, retryVars, chainVars, signVars, vaultVars, batchVars, credVars>>
MutexNext ==
    \/ \E p \in Callers : mutexRLock(p)
    \/ \E p \in Callers : mutexRUnlock(p)
    \/ \E p \in Callers : refreshLock(p)
    \/ \E p \in Callers : loginSend(p)
    \/ \E p \in Callers :
          \E r \in {x \in LoginResponses :
                       \/ x.kind = "non200"
                       \/ x.kind = "ok" /\ x.tok \in {<<StartTime + TokenBuffer>>, <<MaxExp>>}} :
              loginArrive(p, r)
    \/ \E p \in Callers : mutexLock(p)
    \/ \E p \in Callers : storeToken(p)
    \/ \E p \in Callers : GetTokenReturn(p)
    \/ ClearTokenSteps
    \/ AuthTick

SpecAuthMutex == AuthInit /\ [][MutexNext]_vars

(***************************************************************************)
(* Client: the transport chain.  c.httpClient is config.HTTPClient, the    *)
(* *http.Client that NewAuthManager stores as well, so the login request   *)
(* of refreshToken and the API request of makeRequest both pass through    *)
(* c.httpClient.Transport.  The chain is the sequence of its wrappers,     *)
(* outermost first; under the last one lies the base transport.            *)
(***************************************************************************)
RateLimitLayer == [kind |-> "ratelimit", maxRetries |-> 0, retryDelay |-> 0]
RetryLayer(maxRetries, retryDelay) ==
    [kind |-> "retry", maxRetries |-> maxRetries, retryDelay |-> retryDelay]

\* New and updateTransportChain: signing wrapped first, rate limiting around it
WrapMiddleware(signer, limiter) ==
    (IF limiter THEN <<RateLimitLayer>> ELSE <<>>)
        \o (IF signer
            THEN <<[kind |-> "signing", maxRetries |-> 0, retryDelay |-> 0]>>
            ELSE <<>>)

\* New(config): the limiter exists iff config.RateLimit is enabled, the
\* signer iff signing is enabled with a non-empty secret; the base transport
\* is config.HTTPClient.Transport, or http.DefaultTransport when that is nil
ChainInit ==
    /\ now = StartTime
    /\ NewAuthManager
    /\ Idle({"limiter", "retry"})
    /\ cfgRateLimit \in {"nil", "enabled", "disabled"}
    /\ cRateLimiter = (cfgRateLimit = "enabled")
    /\ cRequestSigner \in BOOLEAN
    /\ base \in {"default", "custom"}
    /\ chain = WrapMiddleware(cRequestSigner, cRateLimiter)
    /\ configOps = 0
    /\ reconf = [pc |-> "idle", prev |-> <<>>]
    /\ rqpc = "idle"
    /\ rqKind = "none"
    /\ rqPos = 0
    /\ rqIdx = <<>>
    /\ rqResp = NilResponse
    /\ rqErr = "nil"
    /\ rqCtxDone = FALSE
    /\ rqWaited = 0
    /\ rqSigned = "none"
    /\ attempts = 0
    /\ rqSleeps = 0
    /\ Idle({"signing", "vault", "batch", "credentials"})

\* a reconfiguration call is made between requests, within the bounds
CanReconfigure(newChain) ==
    /\ rqpc = "idle"
    /\ reconf.pc = "idle"
    /\ configOps < MaxConfigOps
    /\ Len(newChain) <= MaxChain

RequestUnchanged ==
    UNCHANGED <<rqpc, rqKind, rqPos, rqIdx, rqResp, rqErr, rqCtxDone, rqWaited,
                rqSigned, attempts, rqSleeps>>

\* Client.SetRetryPolicy: a retryTransport around the current transport
SetRetryPolicy(maxRetries, retryDelay) ==
    /\ CanReconfigure(<<RetryLayer(maxRetries, retryDelay)>> \o chain)
    /\ chain' = <<RetryLayer(maxRetries, retryDelay)>> \o chain
    /\ configOps' = configOps + 1
    /\ UNCHANGED <<base, cRateLimiter, cRequestSigner, cfgRateLimit>>
    /\ RequestUnchanged
    /\ UNCHANGED reconf
    /\ UNCHANGED <<now, authVars, limiterVars, retryVars, signVars, vaultVars, batchVars, credVars>>

\* Client.SetRateLimit: an outermost rateLimitTransport is taken off, then a
\* rateLimitTransport right under an outermost retryTransport is cut out of
\* it, and a new rateLimitTransport goes around what is left
StripOuterRateLimit(t) ==
    IF Len(t) >= 1 /\ t[1].kind = "ratelimit" THEN Tail(t) ELSE t

SetRateLimitChain_CutsAnyLayer(t) ==
    LET u == StripOuterRateLimit(t)
    IN  <<RateLimitLayer>> \o
            (IF Len(u) >= 2 /\ u[1].kind = "retry"
             THEN <<u[1]>> \o SubSeq(u, 3, Len(u))
             ELSE u)

SetRateLimitChain(t) ==
    LET u == StripOuterRateLimit(t)
    IN  <<RateLimitLayer>> \o
            (IF Len(u) >= 2 /\ u[1].kind = "retry" /\ u[2].kind = "ratelimit"
             THEN <<u[1]>> \o SubSeq(u, 3, Len(u))
             ELSE u)

SetRateLimit ==
    /\ CanReconfigure(SetRateLimitChain(chain))
    /\ cRateLimiter' = TRUE
    /\ cfgRateLimit' = "enabled"
    /\ chain' = SetRateLimitChain(chain)
    /\ configOps' = configOps + 1
    /\ UNCHANGED <<base, cRequestSigner>>
    /\ RequestUnchanged
    /\ UNCHANGED reconf
    /\ UNCHANGED <<now, authVars, limiterVars, retryVars, signVars, vaultVars, batchVars, credVars>>

\* Client.EnableRateLimit: SetRateLimit(10.0, 20) when config.RateLimit is
\* nil, else a new limiter in a rateLimitTransport around the current transport
EnableRateLimitChain(t) ==
    IF cfgRateLimit = "nil" THEN SetRateLimitChain(t) ELSE <<RateLimitLayer>> \o t

EnableRateLimit ==
    /\ CanReconfigure(EnableRateLimitChain(chain))
    /\ cRateLimiter' = TRUE
    /\ cfgRateLimit' = "enabled"
    /\ chain' = EnableRateLimitChain(chain)
    /\ configOps' = configOps + 1
    /\ UNCHANGED <<base, cRequestSigner>>
    /\ RequestUnchanged
    /\ UNCHANGED reconf
    /\ UNCHANGED <<now, authVars, limiterVars, retryVars, signVars, vaultVars, batchVars, credVars>>

\* Client.DisableRateLimit: only an outermost rateLimitTransport is removed
DisableRateLimit ==
    /\ CanReconfigure(StripOuterRateLimit(chain))
    /\ cfgRateLimit' = IF cfgRateLimit = "nil" THEN "nil" ELSE "disabled"
    /\ cRateLimiter' = FALSE
    /\ chain' = StripOuterRateLimit(chain)
    /\ configOps' = configOps + 1
    /\ UNCHANGED <<base, cRequestSigner>>
    /\ RequestUnchanged
    /\ UNCHANGED reconf
    /\ UNCHANGED <<now, authVars, limiterVars, retryVars, signVars, vaultVars, batchVars, credVars>>

\* updateTransportChain: the chain is rebuilt over http.DefaultTransport
\* from c.requestSigner and c.rateLimiter alone
updateTransportChain(signer) ==
    /\ base' = "default"
    /\ chain' = WrapMiddleware(signer, cRateLimiter)

\* Client.EnableRequestSigning / Client.DisableRequestSigning
EnableRequestSigning ==
    /\ CanReconfigure(WrapMiddleware(TRUE, cRateLimiter))
    /\ cRequestSigner' = TRUE
    /\ updateTransportChain(TRUE)
    /\ configOps' = configOps + 1
    /\ UNCHANGED <<cRateLimiter, cfgRateLimit>>
    /\ RequestUnchanged
    /\ UNCHANGED reconf
    /\ UNCHANGED <<now, authVars, limiterVars, retryVars, signVars, vaultVars, batchVars, credVars>>

DisableRequestSigning ==
    /\ CanReconfigure(WrapMiddleware(FALSE, cRateLimiter))
    /\ cRequestSigner' = FALSE
    /\ updateTransportChain(FALSE)
    /\ configOps' = configOps + 1
    /\ UNCHANGED <<cRateLimiter, cfgRateLimit>>
    /\ RequestUnchanged
    /\ UNCHANGED reconf
    /\ UNCHANGED <<now, authVars, limiterVars, retryVars, signVars, vaultVars, batchVars, credVars>>

ConfigUnchanged ==
    UNCHANGED <<chain, base, cRateLimiter, cRequestSigner, cfgRateLimit, configOps, reconf>>

\* the base transport is the layer under the last wrapper
BasePos == Len(chain) + 1

\* a.httpClient.Do(req) in refreshToken, c.httpClient.Do(req) in makeRequest
StartRequest(kind) ==
    /\ rqpc = "idle"
    /\ rqpc' = "down"
    /\ rqKind' = kind
    /\ rqPos' = 1
    /\ rqIdx' = [k \in 1..Len(chain) |-> 0]
    /\ UNCHANGED <<rqResp, rqErr, rqCtxDone, rqWaited, rqSigned, attempts, rqSleeps>>
    /\ ConfigUnchanged
    /\ UNCHANGED <<now, authVars, limiterVars, retryVars, signVars, vaultVars, batchVars, credVars>>

\* retryTransport.RoundTrip entered: i := 0; with maxRetries < 0 the loop
\* is skipped and the nil resp, nil err are returned
RetryEnter ==
    /\ rqpc = "down"
    /\ rqPos < BasePos
    /\ chain[rqPos].kind = "retry"
    /\ rqIdx' = [rqIdx EXCEPT ![rqPos] = 0]
    /\ IF 0 <= chain[rqPos].maxRetries
       THEN /\ rqPos' = rqPos + 1
            /\ UNCHANGED <<rqpc, rqResp, rqErr>>
       ELSE /\ rqpc' = "up"
            /\ rqPos' = rqPos - 1
            /\ rqResp' = NilResponse
            /\ rqErr' = "nil"
    /\ UNCHANGED <<rqKind, rqCtxDone, rqWaited, rqSigned, attempts, rqSleeps>>
    /\ ConfigUnchanged
    /\ UNCHANGED <<now, authVars, limiterVars, retryVars, signVars, vaultVars, batchVars, credVars>>

\* rateLimitTransport.RoundTrip: Wait(req.Context()) admits the request, or
\* returns ctx.Err() when the context is cancelled while it waits
RateLimitPass(admitted) ==
    /\ rqpc = "down"
    /\ rqPos < BasePos
    /\ chain[rqPos].kind = "ratelimit"
    /\ admitted \/ rqCtxDone
    /\ IF admitted
       THEN /\ rqWaited' = rqWaited + 1
            /\ rqPos' = rqPos + 1
            /\ UNCHANGED <<rqpc, rqResp, rqErr>>
       ELSE /\ rqpc' = "up"
            /\ rqPos' = rqPos - 1
            /\ rqResp' = NilResponse
            /\ rqErr' = "ctxerr"
            /\ UNCHANGED rqWaited
    /\ UNCHANGED <<rqKind, rqIdx, rqCtxDone, rqSigned, attempts, rqSleeps>>
    /\ ConfigUnchanged
    /\ UNCHANGED <<now, authVars, limiterVars, retryVars, signVars, vaultVars, batchVars, credVars>>

\* signingTransport.RoundTrip: SignRequest sets X-Timestamp and X-Signature
SigningPass ==
    /\ rqpc = "down"
    /\ rqPos < BasePos
    /\ chain[rqPos].kind = "signing"
    /\ rqSigned' = "fresh"
    /\ rqPos' = rqPos + 1
    /\ UNCHANGED <<rqpc, rqKind, rqIdx, rqResp, rqErr, rqCtxDone, rqWaited,
                   attempts, rqSleeps>>
    /\ ConfigUnchanged
    /\ UNCHANGED <<now, authVars, limiterVars, retryVars, signVars, vaultVars, batchVars, credVars>>

\* the base transport sends the request; a cancelled context makes it
\* return the context's error.  The headers stay on the *http.Request.
BaseRoundTrip(o) ==
    /\ rqpc = "down"
    /\ rqPos = BasePos
    /\ attempts' = attempts + 1
    /\ IF rqCtxDone
       THEN /\ rqResp' = NilResponse
            /\ rqErr' = "ctxerr"
       ELSE /\ rqResp' = o.resp
            /\ rqErr' = IF o.err THEN "err" ELSE "nil"
    /\ rqWaited' = 0
    /\ rqSigned' = IF rqSigned = "none" THEN "none" ELSE "stale"
    /\ rqpc' = "up"
    /\ rqPos' = rqPos - 1
    /\ UNCHANGED <<rqKind, rqIdx, rqCtxDone, rqSleeps>>
    /\ ConfigUnchanged
    /\ UNCHANGED <<now, authVars, limiterVars, retryVars, signVars, vaultVars, batchVars, credVars>>

\* the result passes a rateLimitTransport or a signingTransport unchanged
PassUp ==
    /\ rqpc = "up"
    /\ rqPos >= 1
    /\ chain[rqPos].kind # "retry"
    /\ rqPos' = rqPos - 1
    /\ UNCHANGED <<rqpc, rqKind, rqIdx, rqResp, rqErr, rqCtxDone, rqWaited,
                   rqSigned, attempts, rqSleeps>>
    /\ ConfigUnchanged
    /\ UNCHANGED <<now, authVars, limiterVars, retryVars, signVars, vaultVars, batchVars, credVars>>

\* retryTransport.RoundTrip after "resp, err = rt.transport.RoundTrip(req)":
\* return resp, nil; or break on the last attempt; or
\* time.Sleep(rt.retryDelay * time.Duration(1<<uint(i)))
RetryDecide ==
    /\ rqpc = "up"
    /\ rqPos >= 1
    /\ chain[rqPos].kind = "retry"
    /\ IF isFinal([err |-> rqErr # "nil", resp |-> rqResp]) \/ rqIdx[rqPos] = chain[rqPos].maxRetries
       THEN /\ rqPos' = rqPos - 1
            /\ UNCHANGED <<rqpc, rqSleeps>>
       ELSE /\ rqpc' = "sleep"
            /\ rqSleeps' = rqSleeps + BackoffDelay(chain[rqPos].retryDelay, rqIdx[rqPos])
            /\ UNCHANGED rqPos
    /\ UNCHANGED <<rqKind, rqIdx, rqResp, rqErr, rqCtxDone, rqWaited, rqSigned, attempts>>
    /\ ConfigUnchanged
    /\ UNCHANGED <<now, authVars, limiterVars, retryVars, signVars, vaultVars, batchVars, credVars>>

\* time.Sleep returns; i++ and the next pass of the loop
RetryWake ==
    /\ rqpc = "sleep"
    /\ rqIdx' = [rqIdx EXCEPT ![rqPos] = rqIdx[rqPos] + 1]
    /\ rqpc' = "down"
    /\ rqPos' = rqPos + 1
    /\ UNCHANGED <<rqKind, rqResp, rqErr, rqCtxDone, rqWaited, rqSigned, attempts,
                   rqSleeps>>
    /\ ConfigUnchanged
    /\ UNCHANGED <<now, authVars, limiterVars, retryVars, signVars, vaultVars, batchVars, credVars>>

\* Do returns to refreshToken / makeRequest
RequestDone ==
    /\ rqpc = "up"
    /\ rqPos = 0
    /\ rqpc' = "done"
    /\ UNCHANGED <<rqKind, rqPos, rqIdx, rqResp, rqErr, rqCtxDone, rqWaited,
                   rqSigned, attempts, rqSleeps>>
    /\ ConfigUnchanged
    /\ UNCHANGED <<now, authVars, limiterVars, retryVars, signVars, vaultVars, batchVars, credVars>>

\* the caller is done with the request; the next one is a new *http.Request
RequestReset ==
    /\ rqpc = "done"
    /\ rqpc' = "idle"
    /\ rqKind' = "none"
    /\ rqPos' = 0
    /\ rqIdx' = <<>>
    /\ rqResp' = NilResponse
    /\ rqErr' = "nil"
    /\ rqCtxDone' = FALSE
    /\ rqWaited' = 0
    /\ rqSigned' = "none"
    /\ attempts' = 0
    /\ rqSleeps' = 0
    /\ ConfigUnchanged
    /\ UNCHANGED <<now, authVars, limiterVars, retryVars, signVars, vaultVars, batchVars, credVars>>

\* the context handed to the request is cancelled (or its deadline passes)
CancelRequest ==
    /\ rqpc \in {"down", "up", "sleep"}
    /\ ~rqCtxDone
    /\ rqCtxDone' = TRUE
    /\ UNCHANGED <<rqpc, rqKind, rqPos, rqIdx, rqResp, rqErr, rqWaited, rqSigned,
                   attempts, rqSleeps>>
    /\ ConfigUnchanged
    /\ UNCHANGED <<now, authVars, limiterVars, retryVars, signVars, vaultVars, batchVars, credVars>>

ChainNext ==
    \/ \E n \in -1..MaxChainRetries : \E d \in 1..MaxChainDelay : SetRetryPolicy(n, d)
    \/ SetRateLimit
    \/ EnableRateLimit
    \/ DisableRateLimit
    \/ EnableRequestSigning
    \/ DisableRequestSigning
    \/ \E kind \in {"api", "login"} : StartRequest(kind)
    \/ RetryEnter
    \/ \E admitted \in BOOLEAN : RateLimitPass(admitted)
    \/ SigningPass
    \/ \E o \in {x \in Outcomes : x.err \/ x.resp.status \in {200, 500}} : BaseRoundTrip(o)
    \/ PassUp
    \/ RetryDecide
    \/ RetryWake
    \/ RequestDone
    \/ RequestReset
    \/ CancelRequest

SpecChain == ChainInit /\ [][ChainNext]_vars

(***************************************************************************)
(* SetRateLimit in two steps, with requests of other goroutines between    *)
(* them: nothing synchronises c.httpClient.Transport or the fields of the  *)
(* transports it points to.                                                *)
(***************************************************************************)
\* SetRateLimit up to line 291: the new limiter and config are stored, and
\* "rt.transport = rlt.transport" edits the retryTransport that the
\* installed chain still points to, cutting the rate limiter under it
SetRateLimitStrip ==
    /\ CanReconfigure(SetRateLimitChain(chain))
    /\ reconf' = [pc |-> "install", prev |-> chain]
    /\ cRateLimiter' = TRUE
    /\ cfgRateLimit' = "enabled"
    /\ chain' = (IF Len(chain) >= 1 /\ chain[1].kind = "ratelimit"
                 THEN <<chain[1]>> ELSE <<>>)
                    \o Tail(SetRateLimitChain(chain))
    /\ UNCHANGED <<base, cRequestSigner, configOps>>
    /\ RequestUnchanged
    /\ UNCHANGED <<now, authVars, limiterVars, retryVars, signVars, vaultVars, batchVars, credVars>>

\* SetRateLimit lines 293-296: the new rateLimitTransport around
\* originalTransport becomes c.httpClient.Transport
SetRateLimitInstall ==
    /\ reconf.pc = "install"
    /\ rqpc = "idle"
    /\ chain' = <<RateLimitLayer>> \o StripOuterRateLimit(chain)
    /\ reconf' = [pc |-> "idle", prev |-> <<>>]
    /\ configOps' = configOps + 1
    /\ UNCHANGED <<base, cRateLimiter, cRequestSigner, cfgRateLimit>>
    /\ RequestUnchanged
    /\ UNCHANGED <<now, authVars, limiterVars, retryVars, signVars, vaultVars, batchVars, credVars>>

ReconfigureNext ==
    \/ ChainNext
    \/ SetRateLimitStrip
    \/ SetRateLimitInstall

SpecReconfigure == ChainInit /\ [][ReconfigureNext]_vars

(***************************************************************************)
(* RequestSigner.  A string is a sequence of characters; "LF" is the       *)
(* newline, "SP" a blank.  now is time.Now().Unix(), in seconds.           *)
(***************************************************************************)
ReplayWindow == 300
SigEpoch == 400

\* the readings of the clock: the request is signed at SigEpoch, and
\* verified then, or a replay window or more before or after
Instants ==
    {SigEpoch} \cup {SigEpoch - ReplayWindow - j : j \in 0..MaxDrift}
               \cup {SigEpoch + ReplayWindow + j : j \in 0..MaxDrift}

DigitChars == <<"0", "1", "2", "3", "4", "5", "6", "7", "8", "9">>

\* strconv.FormatInt(i, 10)
FormatInt(i) ==
    LET RECURSIVE FormatNat(_)
        FormatNat(n) ==
            IF n < 10 THEN <<DigitChars[n + 1]>>
            ELSE FormatNat(n \div 10) \o <<DigitChars[(n % 10) + 1]>>
    IN  IF i < 0 THEN <<"-">> \o FormatNat(0 - i) ELSE FormatNat(i)

\* strconv.ParseInt(s, 10, 64): an optional sign and at least one digit
ParseInt(str) ==
    LET RECURSIVE ParseNat(_)
        ParseNat(ds) ==
            IF Len(ds) = 0 THEN 0
            ELSE 10 * ParseNat(SubSeq(ds, 1, Len(ds) - 1))
                      + (CHOOSE d \in 1..10 : DigitChars[d] = ds[Len(ds)]) - 1
        signed == Len(str) >= 1 /\ str[1] \in {"+", "-"}
        digits == IF signed THEN Tail(str) ELSE str
    IN  IF Len(digits) >= 1 /\ \A k \in 1..Len(digits) : \E d \in 1..10 : DigitChars[d] = digits[k]
        THEN [ok |-> TRUE,
              val |-> IF signed /\ str[1] = "-" THEN 0 - ParseNat(digits)
                      ELSE ParseNat(digits)]
        ELSE [ok |-> FALSE, val |-> 0]

\* strings.TrimSpace: leading and trailing blanks are cut off
TrimSpace(str) ==
    LET RECURSIVE TrimLeft(_)
        TrimLeft(t) ==
            IF Len(t) >= 1 /\ t[1] = "SP" THEN TrimLeft(Tail(t)) ELSE t
        RECURSIVE TrimRight(_)
        TrimRight(t) ==
            IF Len(t) >= 1 /\ t[Len(t)] = "SP"
            THEN TrimRight(SubSeq(t, 1, Len(t) - 1))
            ELSE t
    IN  TrimRight(TrimLeft(str))

\* strings.Join(parts, sep)
RECURSIVE Join(_, _)
Join(parts, sep) ==
    IF Len(parts) = 0 THEN <<>>
    ELSE IF Len(parts) = 1 THEN parts[1]
    ELSE parts[1] \o <<sep>> \o Join(Tail(parts), sep)

\* the parameters of a query, in sort.Strings order
QueryTokens == <<"a=1", "b=2">>

\* canonicalizeQuery: strings.Split(query, "&"), sort.Strings (an insertion
\* sort here), strings.Join
canonicalizeQuery(params) ==
    LET rank(x) == CHOOSE k \in 1..Len(QueryTokens) : QueryTokens[k] = x
        RECURSIVE Insert(_, _)
        Insert(done, t) ==
            IF Len(done) = 0 THEN <<t>>
            ELSE IF rank(t) <= rank(done[1]) THEN <<t>> \o done
            ELSE <<done[1]>> \o Insert(Tail(done), t)
        RECURSIVE SortTokens(_)
        SortTokens(ps) ==
            IF Len(ps) = 0 THEN <<>>
            ELSE Insert(SortTokens(Tail(ps)), ps[1])
        sorted == SortTokens(params)
    IN  Join([k \in 1..Len(sorted) |-> <<sorted[k]>>], "&")

\* canonicalizeHeaders: "name:value" of the headers authorization,
\* content-type, x-timestamp that are set, value trimmed, joined by newlines
canonicalizeHeaders(req) ==
    LET HeaderLine(name, value) == <<name, ":">> \o TrimSpace(value)
        lines ==
            (IF req.authorization # <<>>
             THEN <<HeaderLine("authorization", req.authorization)>> ELSE <<>>)
         \o (IF req.contentType # <<>>
             THEN <<HeaderLine("content-type", req.contentType)>> ELSE <<>>)
         \o (IF req.xTimestamp # <<>>
             THEN <<HeaderLine("x-timestamp", req.xTimestamp)>> ELSE <<>>)
    IN  Join(lines, "LF")

\* hex.EncodeToString(sha256.Sum256(body)): one digest per body, and no
\* newline in it
createStringToSign_NoBody(req, body, timestamp) ==
    Join(<<req.method, req.path, canonicalizeQuery(req.query), canonicalizeHeaders(req),
           FormatInt(timestamp)>>, "LF")

\* createStringToSign: method, path, query, headers, body hash, timestamp
createStringToSign(req, body, timestamp) ==
    Join(<<req.method, req.path, canonicalizeQuery(req.query), canonicalizeHeaders(req),
           <<"sha256">> \o [k \in 1..Len(body) |-> IF body[k] = "LF" THEN "0a" ELSE body[k]],
           FormatInt(timestamp)>>, "LF")

\* generateSignature: hex of HMAC-SHA256 under the signer's secret, one
\* signature per string
generateSignature(stringToSign) == <<"hmac">> \o stringToSign

abs(x) == IF x < 0 THEN 0 - x ELSE x

VerifySignature_NoAbs(req, body, signature, t) ==
    IF rsNil THEN TRUE
    ELSE IF req.xTimestamp = <<>> THEN FALSE
    ELSE IF ~ParseInt(req.xTimestamp).ok THEN FALSE
    ELSE IF t - ParseInt(req.xTimestamp).val > ReplayWindow THEN FALSE
    ELSE signature =
           generateSignature(createStringToSign(req, body, ParseInt(req.xTimestamp).val))

\* VerifySignature at clock reading t
VerifySignature(req, body, signature, t) ==
    IF rsNil THEN TRUE
    ELSE IF req.xTimestamp = <<>> THEN FALSE
    ELSE IF ~ParseInt(req.xTimestamp).ok THEN FALSE
    ELSE IF abs(t - ParseInt(req.xTimestamp).val) > ReplayWindow THEN FALSE
    ELSE signature =
           generateSignature(createStringToSign(req, body, ParseInt(req.xTimestamp).val))

\* the values one field of a request has, or may be changed to
FieldValues(field) ==
    CASE field = "method" -> {<<"GET">>, <<"POST">>}
      [] field = "path" -> {<<"/", "a">>, <<"/", "b">>}
      [] field = "query" ->
            UNION {[1..n -> {QueryTokens[k] : k \in 1..Len(QueryTokens)}] :
                       n \in 0..MaxQueryTokens}
      [] field = "authorization" -> {<<>>, <<"t">>, <<"SP", "t">>}
      [] field = "contentType" -> {<<>>, <<"json">>}
      [] field = "xTimestamp" ->
            {<<>>, <<"x">>} \cup {FormatInt(t) : t \in Instants}
                \cup {<<"+">> \o FormatInt(t) : t \in Instants}
                \cup {FormatInt(t) \o <<"SP">> : t \in Instants}
      [] field = "body" -> {<<>>, <<"x">>}

\* a request built, and a signer made by NewRequestSigner or left nil
SignInit ==
    /\ now = SigEpoch
    /\ NewAuthManager
    /\ Idle({"limiter", "retry", "chain"})
    /\ rsNil \in BOOLEAN
    /\ sreq \in [method : FieldValues("method"), path : {<<"/", "a">>},
                query : FieldValues("query"),
                authorization : FieldValues("authorization"),
                contentType : {<<"json">>}, xTimestamp : {<<>>},
                body : FieldValues("body")]
    /\ xSignature = <<>>
    /\ signedReq = NoRequest
    /\ tampered = "none"
    /\ verified = "none"
    /\ Idle({"vault", "batch", "credentials"})

\* SignRequest: nothing on a nil signer; else X-Timestamp, then X-Signature
SignRequest ==
    /\ signedReq = NoRequest
    /\ IF rsNil
       THEN /\ signedReq' = sreq
            /\ UNCHANGED <<sreq, xSignature>>
       ELSE LET stamped == [sreq EXCEPT !.xTimestamp = FormatInt(now)] IN
            /\ sreq' = stamped
            /\ xSignature' = generateSignature(createStringToSign(stamped, stamped.body, now))
            /\ signedReq' = stamped
    /\ verified' = "none"
    /\ UNCHANGED <<now, rsNil, tampered>>
    /\ UNCHANGED <<authVars, limiterVars, retryVars, chainVars, vaultVars, batchVars, credVars>>

\* one field of the signed request is changed to a different value
Tamper(field, value) ==
    /\ signedReq # NoRequest
    /\ tampered = "none"
    /\ value \in FieldValues(field)
    /\ value # sreq[field]
    /\ sreq' = [sreq EXCEPT ![field] = value]
    /\ tampered' = field
    /\ verified' = "none"
    /\ UNCHANGED <<now, rsNil, xSignature, signedReq>>
    /\ UNCHANGED <<authVars, limiterVars, retryVars, chainVars, vaultVars, batchVars, credVars>>

\* between signing and verification the clock moves to another reading
ClockJump(t) ==
    /\ signedReq # NoRequest
    /\ t \in Instants
    /\ t # now
    /\ now' = t
    /\ verified' = "none"
    /\ UNCHANGED <<rsNil, sreq, xSignature, signedReq, tampered>>
    /\ UNCHANGED <<authVars, limiterVars, retryVars, chainVars, vaultVars, batchVars, credVars>>

\* VerifySignature(req, body, signature) with the signature SignRequest set
Verify ==
    /\ signedReq # NoRequest
    /\ verified = "none"
    /\ verified' = IF VerifySignature(sreq, sreq.body, xSignature, now)
                   THEN "true" ELSE "false"
    /\ UNCHANGED <<now, rsNil, sreq, xSignature, signedReq, tampered>>
    /\ UNCHANGED <<authVars, limiterVars, retryVars, chainVars, vaultVars, batchVars, credVars>>

SignNext ==
    \/ SignRequest
    \/ \E field \in {"method", "path", "query", "authorization", "contentType",
                    "xTimestamp", "body"} :
          \E value \in FieldValues(field) : Tamper(field, value)
    \/ \E t \in Instants : ClockJump(t)
    \/ Verify

SpecSigning == SignInit /\ [][SignNext]_vars

(***************************************************************************)
(* CredentialEncryption: AES-256-GCM under a key derived from a password,  *)
(* the result in URL-safe base64.  A byte is a record saying what it       *)
(* carries: byte i of a nonce, byte i of the ciphertext of a plaintext     *)
(* under a key and a nonce, byte i of the tag of that sealing, or a byte   *)
(* that is none of these.  AES-GCM is taken as ideal: Open succeeds on     *)
(* exactly what Seal returned under the same key and nonce.                *)
(***************************************************************************)
NonceSize == 12
TagSize == 16

Passwords == {"pw1", "pw2"}
NonceIds == 1..MaxNonces

\* NewCredentialEncryption: the key is sha256 of the password
KeyOf(password) == <<"sha256", password>>

GarbageByte == [t |-> "garbage", key |-> <<>>, nonce |-> 0, i |-> 0, v |-> <<>>]

\* the nonce read from rand.Reader
NonceBytes(n) ==
    [i \in 1..NonceSize |-> [t |-> "nonce", key |-> <<>>, nonce |-> n, i |-> i, v |-> <<>>]]

\* gcm.Seal(dst, nonce, plaintext, nil) without dst: ciphertext, then tag
gcmSeal(key, n, text) ==
    [i \in 1..Len(text) |->
        [t |-> "ct", key |-> key, nonce |-> n, i |-> i, v |-> <<text[i]>>]]
    \o [i \in 1..TagSize |->
           [t |-> "tag", key |-> key, nonce |-> n, i |-> i, v |-> text]]

OpenError == [ok |-> FALSE, text |-> <<>>]

gcmOpen_NoTag(key, nonce, body) ==
    IF Len(body) < TagSize THEN OpenError
    ELSE [ok |-> TRUE,
          text |-> [i \in 1..(Len(body) - TagSize) |->
                       IF body[i].t = "ct" THEN body[i].v[1] ELSE "?"]]

\* gcm.Open(nil, nonce, ciphertext, nil)
gcmOpen(key, nonce, body) ==
    IF Len(body) < TagSize THEN OpenError
    ELSE LET m == Len(body) - TagSize
             text == [i \in 1..m |-> body[i].v[1]]
         IN  IF /\ \A i \in 1..m : body[i].t = "ct"
                /\ \E n \in NonceIds :
                      nonce = NonceBytes(n) /\ body = gcmSeal(key, n, text)
             THEN [ok |-> TRUE, text |-> text]
             ELSE OpenError

\* base64.URLEncoding.  A character of the alphabet is character k of the
\* group of up to three bytes it encodes; slack are the bits of the last
\* character of a short group that belong to no byte (the encoder writes 0).
B64Char(q, k) == [t |-> "b64", q |-> q, k |-> k, slack |-> 0]
PadChar == [t |-> "pad", q |-> <<>>, k |-> 0, slack |-> 0]

\* base64.URLEncoding.EncodeToString
RECURSIVE EncodeToString(_)
EncodeToString(bytes) ==
    LET EncodeGroup(q) ==
            [k \in 1..(Len(q) + 1) |-> B64Char(q, k)]
                \o [k \in 1..(3 - Len(q)) |-> PadChar]
    IN
    IF Len(bytes) = 0 THEN <<>>
    ELSE IF Len(bytes) <= 3 THEN EncodeGroup(bytes)
    ELSE EncodeGroup(SubSeq(bytes, 1, 3)) \o EncodeToString(SubSeq(bytes, 4, Len(bytes)))

IsData(c) == c.t = "b64"

\* A quantum is four characters of the alphabet, or, as the last one, two
\* or three of them and padding (quadOK); its bytes are those of the group
\* its characters encode, the slack bits not looked at (quadBytes).
RECURSIVE DecodeQuads(_)
DecodeQuads(str) ==
    IF Len(str) = 0 THEN [ok |-> TRUE, bytes |-> <<>>]
    ELSE LET quad == SubSeq(str, 1, 4)
             rest == DecodeQuads(SubSeq(str, 5, Len(str)))
             m == IF IsData(quad[4]) THEN 4 ELSE IF IsData(quad[3]) THEN 3 ELSE 2
             quadOK ==
                 /\ \A k \in 1..4 : quad[k].t \in {"b64", "pad"}
                 /\ \A k \in 1..m : IsData(quad[k])
                 /\ \A k \in (m + 1)..4 : quad[k].t = "pad"
                 /\ m < 4 => Len(str) = 4
             quadBytes ==
                 IF /\ \A k \in 1..m : quad[k].q = quad[1].q /\ quad[k].k = k
                    /\ Len(quad[1].q) >= m - 1
                 THEN SubSeq(quad[1].q, 1, m - 1)
                 ELSE [k \in 1..(m - 1) |-> GarbageByte]
         IN  IF quadOK /\ rest.ok
             THEN [ok |-> TRUE, bytes |-> quadBytes \o rest.bytes]
             ELSE [ok |-> FALSE, bytes |-> <<>>]

\* base64.URLEncoding.DecodeString: "\r" and "\n" are skipped
DecodeString(str) ==
    LET stripped == SelectSeq(str, LAMBDA c : c.t # "lf") IN
    IF Len(stripped) % 4 # 0
    THEN [ok |-> FALSE, bytes |-> <<>>]
    ELSE DecodeQuads(stripped)

Encrypt_NoNoncePrefix(password, text, n) ==
    IF text = <<>> THEN <<>> ELSE gcmSeal(KeyOf(password), n, text)

\* Encrypt up to gcm.Seal(nonce, nonce, []byte(plaintext), nil): the nonce,
\* then ciphertext and tag; n is the nonce rand.Reader gave
Encrypt(password, text, n) ==
    IF text = <<>> THEN <<>>
    ELSE NonceBytes(n) \o gcmSeal(KeyOf(password), n, text)

\* Decrypt
Decrypt(password, str) ==
    IF str = <<>> THEN [text |-> <<>>, err |-> "nil"]
    ELSE LET data == DecodeString(str) IN
         IF ~data.ok THEN [text |-> <<>>, err |-> "failed to decode base64"]
         ELSE IF Len(data.bytes) < NonceSize
              THEN [text |-> <<>>, err |-> "ciphertext too short"]
         ELSE LET opened == gcmOpen(KeyOf(password),
                                    SubSeq(data.bytes, 1, NonceSize),
                                    SubSeq(data.bytes, NonceSize + 1, Len(data.bytes)))
              IN  IF opened.ok THEN [text |-> opened.text, err |-> "nil"]
                  ELSE [text |-> <<>>, err |-> "failed to decrypt"]

\* NewCredentialEncryption(password) and a plaintext to encrypt
VaultInit ==
    /\ now = StartTime
    /\ NewAuthManager
    /\ Idle({"limiter", "retry", "chain", "signing", "batch", "credentials"})
    /\ cePassword \in Passwords
    /\ plaintext \in UNION {[1..n -> {"a", "b"}] : n \in 0..MaxPlainLen}
    /\ sealed = <<>>
    /\ ciphertext = <<>>
    /\ alteration = "idle"
    /\ decPassword = ""
    /\ decResult = NoDecrypt

VaultUnchanged ==
    UNCHANGED <<now, authVars, limiterVars, retryVars, chainVars, signVars, batchVars, credVars>>

\* ce.Encrypt(plaintext)
EncryptCall(n) ==
    /\ alteration = "idle"
    /\ sealed' = Encrypt(cePassword, plaintext, n)
    /\ ciphertext' = EncodeToString(Encrypt(cePassword, plaintext, n))
    /\ alteration' = "none"
    /\ UNCHANGED <<cePassword, plaintext, decPassword, decResult>>
    /\ VaultUnchanged

CanAlter == alteration = "none" /\ decResult = NoDecrypt

\* the stored string is cut short
Truncate(n) ==
    /\ CanAlter
    /\ n \in 0..(Len(ciphertext) - 1)
    /\ ciphertext' = SubSeq(ciphertext, 1, n)
    /\ alteration' = "truncated"
    /\ UNCHANGED <<cePassword, plaintext, sealed, decPassword, decResult>>
    /\ VaultUnchanged

\* one character becomes another: one outside the alphabet, another one of
\* the alphabet, or padding
ReplaceChar(i, c) ==
    /\ CanAlter
    /\ i \in 1..Len(ciphertext)
    /\ c # ciphertext[i]
    /\ ciphertext' = [ciphertext EXCEPT ![i] = c]
    /\ alteration' = "replaced"
    /\ UNCHANGED <<cePassword, plaintext, sealed, decPassword, decResult>>
    /\ VaultUnchanged

\* the last character before the padding becomes the one that differs from
\* it in the bits that belong to no byte
FlipSlack(i) ==
    /\ CanAlter
    /\ i \in 1..(Len(ciphertext) - 1)
    /\ IsData(ciphertext[i])
    /\ ciphertext[i + 1].t = "pad"
    /\ ciphertext' = [ciphertext EXCEPT ![i].slack = 1]
    /\ alteration' = "slack"
    /\ UNCHANGED <<cePassword, plaintext, sealed, decPassword, decResult>>
    /\ VaultUnchanged

\* a line break gets into the stored string
InsertLineBreak(i) ==
    /\ CanAlter
    /\ ciphertext # <<>>
    /\ i \in 0..Len(ciphertext)
    /\ ciphertext' = SubSeq(ciphertext, 1, i) \o <<[t |-> "lf", q |-> <<>>, k |-> 0, slack |-> 0]>>
                        \o SubSeq(ciphertext, i + 1, Len(ciphertext))
    /\ alteration' = "linebreak"
    /\ UNCHANGED <<cePassword, plaintext, sealed, decPassword, decResult>>
    /\ VaultUnchanged

\* NewCredentialEncryption(password).Decrypt(ciphertext)
DecryptCall(password) ==
    /\ alteration # "idle"
    /\ decResult = NoDecrypt
    /\ decPassword' = password
    /\ decResult' = Decrypt(password, ciphertext)
    /\ UNCHANGED <<cePassword, plaintext, sealed, ciphertext, alteration>>
    /\ VaultUnchanged

\* longest string Encrypt returns here
MaxCipherLen == 4 * ((NonceSize + MaxPlainLen + TagSize + 2) \div 3)

VaultNext ==
    \/ \E n \in NonceIds : EncryptCall(n)
    \/ \E n \in 0..MaxCipherLen : Truncate(n)
    \/ \E i \in 1..MaxCipherLen :
          \E c \in {[t |-> "bad", q |-> <<>>, k |-> 0, slack |-> 0],
                    B64Char(<<GarbageByte, GarbageByte, GarbageByte>>, 1),
                    PadChar} : ReplaceChar(i, c)
    \/ \E i \in 1..MaxCipherLen : FlipSlack(i)
    \/ \E i \in 0..MaxCipherLen : InsertLineBreak(i)
    \/ \E password \in Passwords : DecryptCall(password)

SpecVault == VaultInit /\ [][VaultNext]_vars

(***************************************************************************)
(* End to end: one goroutine sends API requests back to back through a     *)
(* Client built by New with rate limiting and request signing enabled.     *)
(* The clock is in ticks of the 10 ms poll interval, as for the limiter;   *)
(* it moves only while Wait sleeps and while the base transport waits for  *)
(* the server.  The server answers every request (login included) with     *)
(* success and checks the signature it received.                           *)
(***************************************************************************)
TicksPerSecond == 1000 \div PollIntervalMs

\* makeRequest: GET with Authorization: Bearer <token> and no body
ApiRequest ==
    [method |-> <<"GET">>, path |-> <<"/", "b">>, query |-> <<>>,
     authorization |-> <<"t">>, contentType |-> <<"json">>, xTimestamp |-> <<>>,
     body |-> <<>>]

\* New(config) with RateLimit.Enabled and Security.EnableRequestSigning
BatchInit ==
    /\ now = StartTime
    /\ NewAuthManager
    /\ \E config \in {c \in RateLimitConfigs : ~c.isNil /\ c.enabled} :
          /\ rlConfig = config
          /\ LimiterIs(NewRateLimiter(config, StartTime))
    /\ LimiterCallersIdle
    /\ Idle({"retry"})
    /\ cfgRateLimit = "enabled"
    /\ cRateLimiter = TRUE
    /\ cRequestSigner = TRUE
    /\ base = "default"
    /\ chain = WrapMiddleware(TRUE, TRUE)
    /\ configOps = 0
    /\ reconf = [pc |-> "idle", prev |-> <<>>]
    /\ rqpc = "idle"
    /\ rqKind = "none"
    /\ rqPos = 0
    /\ rqIdx = <<>>
    /\ rqResp = NilResponse
    /\ rqErr = "nil"
    /\ rqCtxDone = FALSE
    /\ rqWaited = 0
    /\ rqSigned = "none"
    /\ attempts = 0
    /\ rqSleeps = 0
    /\ rsNil = FALSE
    /\ sreq = NoRequest
    /\ xSignature = <<>>
    /\ signedReq = NoRequest
    /\ tampered = "none"
    /\ verified = "none"
    /\ Idle({"vault", "batch", "credentials"})

BatchUnchanged ==
    /\ UNCHANGED <<refreshMutex, pc, result, loginResp, waitedOnOK, loginsSent, calls,
                   clearedInFlight, mutex, local>>
    /\ UNCHANGED <<rlConfig, rlNil, maxTokens, refillRate, rlMutex, lpc, lop, lnow, lok,
                   lres, ctxDone, sleepLeft, admitLog>>
    /\ UNCHANGED <<rsNil, tampered, mr, apiError>>
    /\ UNCHANGED <<retryVars, chainVars, vaultVars, credVars>>

\* makeRequest: GetToken returns the cached token when isTokenValid, else
\* refreshToken sends the login request with the AuthManager's httpClient,
\* which is the Client's; either request enters the transport chain
BatchIssue ==
    /\ bpc = "ready"
    /\ bSent < rlConfig.burst + MaxExtra
    /\ bKind' = IF isTokenValid THEN "api" ELSE "login"
    /\ sreq' = IF isTokenValid
               THEN ApiRequest
               ELSE [method |-> <<"POST">>, path |-> <<"/", "a">>, query |-> <<>>,
                     authorization |-> <<>>, contentType |-> <<"json">>,
                     xTimestamp |-> <<>>, body |-> <<"x">>]
    /\ bSlept' = FALSE
    /\ bpc' = "gate"
    /\ UNCHANGED <<now, token, expiresAt, tokens, lastRefill, xSignature, signedReq,
                   verified, bSent, bLog>>
    /\ BatchUnchanged

\* rateLimitTransport.RoundTrip: one iteration of Wait, the call of Allow
BatchAllow ==
    /\ bpc = "gate"
    /\ lastRefill' = now
    /\ IF Refill(tokens, now - lastRefill) >= TokenScale
       THEN /\ tokens' = Refill(tokens, now - lastRefill) - TokenScale
            /\ bLog' = Append(bLog, [kind |-> bKind, immediate |-> ~bSlept, at |-> now,
                                     verified |-> "none"])
            /\ bpc' = "sign"
       ELSE /\ tokens' = Refill(tokens, now - lastRefill)
            /\ bpc' = "sleep"
            /\ UNCHANGED bLog
    /\ UNCHANGED <<now, token, expiresAt, sreq, xSignature, signedReq, verified, bKind,
                   bSent, bSlept>>
    /\ BatchUnchanged

\* Wait: time.After(waitTime) fires; a wait of less than a tick ends within
\* the tick or at the next one
BatchWake ==
    /\ bpc = "sleep"
    /\ now' \in {now + (IF (TokenScale - tokens) * PollIntervalMs
                                > refillRate * PollThresholdMs
                          THEN 1
                          ELSE 0),
                 now + 1}
    /\ bSlept' = TRUE
    /\ bpc' = "gate"
    /\ UNCHANGED <<token, expiresAt, tokens, lastRefill, sreq, xSignature, signedReq,
                   verified, bKind, bSent, bLog>>
    /\ BatchUnchanged

\* signingTransport.RoundTrip: SignRequest stamps the Unix time in seconds
\* and signs
BatchSign ==
    /\ bpc = "sign"
    /\ LET stamped == [sreq EXCEPT !.xTimestamp = FormatInt(now \div TicksPerSecond)] IN
          /\ sreq' = stamped
          /\ signedReq' = stamped
          /\ xSignature' = generateSignature(
                               createStringToSign(stamped, stamped.body,
                                                  now \div TicksPerSecond))
    /\ verified' = "none"
    /\ bpc' = "base"
    /\ UNCHANGED <<now, token, expiresAt, tokens, lastRefill, bKind, bSent, bSlept, bLog>>
    /\ BatchUnchanged

\* the base transport: the server verifies the signature and answers after
\* latency ticks.  A login answer carries a token without an exp claim, kept
\* for the fallback lifetime; makeRequest then sends its API request.
BatchBase(latency) ==
    /\ bpc = "base"
    /\ now' = now + latency
    /\ LET ok == VerifySignature(signedReq, signedReq.body, xSignature,
                                 (now + latency) \div TicksPerSecond) IN
          /\ verified' = IF ok THEN "true" ELSE "false"
          /\ bLog' = [bLog EXCEPT ![Len(bLog)].verified = IF ok THEN "true" ELSE "false"]
    /\ IF bKind = "login"
       THEN /\ token' = <<0>>
            /\ expiresAt' = now + latency + FallbackLifetime
            /\ bKind' = "api"
            /\ sreq' = ApiRequest
            /\ bpc' = "gate"
            /\ UNCHANGED bSent
       ELSE /\ bSent' = bSent + 1
            /\ bKind' = "none"
            /\ bpc' = IF bSent + 1 = rlConfig.burst + MaxExtra THEN "finished" ELSE "ready"
            /\ UNCHANGED <<token, expiresAt, sreq>>
    /\ bSlept' = FALSE
    /\ UNCHANGED <<tokens, lastRefill, xSignature, signedReq>>
    /\ BatchUnchanged

BatchNext ==
    \/ BatchIssue
    \/ BatchAllow
    \/ BatchWake
    \/ \E latency \in 0..MaxLatency : BatchBase(latency)
    \/ BatchSign

SpecBatch == BatchInit /\ [][BatchNext]_vars

(***************************************************************************)
(* Client.makeRequest, one call after another in one goroutine: the token  *)
(* first, then the validation of the body, then the request.  body is nil, *)
(* a struct that passes c.validator.Struct, or one that fails it.          *)
(***************************************************************************)
\* c.authManager.GetToken(ctx): the cached token when isTokenValid, else
\* refreshToken sends the login request
makeRequestGetToken(body) ==
    /\ mr.pc \in {"idle", "done"}
    /\ mr' = [pc |-> IF isTokenValid THEN "validate" ELSE "login",
              body |-> body,
              err |-> "pending",
              sent |-> IF isTokenValid THEN <<>> ELSE <<"login">>]
    /\ UNCHANGED <<now, authVars>>
    /\ UNCHANGED <<bpc, bKind, bSent, bSlept, bLog, apiError>>
    /\ UNCHANGED <<limiterVars, retryVars, chainVars, signVars, vaultVars, credVars>>
\* the login response: refreshToken stores the token, or GetToken fails and
\* makeRequest returns an AuthenticationError
makeRequestLogin(r) ==
    /\ mr.pc = "login"
    /\ IF r.kind = "ok"
       THEN LET parsed == parseTokenExpiration(r.tok) IN
            /\ token' = r.tok
            /\ expiresAt' = IF parsed.ok THEN parsed.exp ELSE now + FallbackLifetime
            /\ mr' = [mr EXCEPT !.pc = "validate"]
       ELSE /\ mr' = [mr EXCEPT !.pc = "done", !.err = "AuthenticationError"]
            /\ UNCHANGED <<token, expiresAt>>
    /\ UNCHANGED <<now, refreshMutex, pc, result, loginResp, waitedOnOK, loginsSent,
                   calls, clearedInFlight, mutex, local>>
    /\ UNCHANGED <<bpc, bKind, bSent, bSlept, bLog, apiError>>
    /\ UNCHANGED <<limiterVars, retryVars, chainVars, signVars, vaultVars, credVars>>
\* c.validator.Struct(body) for a non-nil body, then c.httpClient.Do(req)
\* and the handling of its result
makeRequestSend(o, parses) ==
    /\ mr.pc = "validate"
    /\ IF mr.body = "invalid"
       THEN mr' = [mr EXCEPT !.pc = "done", !.err = "ValidationError"]
       ELSE mr' = [mr EXCEPT !.pc = "done",
                             !.sent = Append(@, "api"),
                             !.err = IF o.err THEN "NetworkError"
                                     ELSE IF o.resp.status >= 400 THEN "APIError"
                                     ELSE IF parses THEN "nil"
                                     ELSE "failed to parse API response"]
    /\ UNCHANGED <<now, authVars>>
    /\ UNCHANGED <<bpc, bKind, bSent, bSlept, bLog, apiError>>
    /\ UNCHANGED <<limiterVars, retryVars, chainVars, signVars, vaultVars, credVars>>
MakeRequestNext ==
    \/ \E body \in {"nil", "valid", "invalid"} : makeRequestGetToken(body)
    \/ \E r \in LoginResponses : makeRequestLogin(r)
    \/ \E o \in Outcomes : \E parses \in BOOLEAN : makeRequestSend(o, parses)
    \/ AuthTick

SpecMakeRequest == AuthInit /\ [][MakeRequestNext]_vars

(***************************************************************************)
(* errors.APIError: the classification of its StatusCode.                  *)
(***************************************************************************)
IsClientError(e) == e.StatusCode >= 400 /\ e.StatusCode < 500

IsServerError_From400(e) == e.StatusCode >= 400

IsServerError(e) == e.StatusCode >= 500

\* a call of e.IsClientError() or of e.IsServerError()
APIErrorCall(method) ==
    /\ apiError' = IF method = "IsClientError"
                   THEN [apiError EXCEPT !.client = IF IsClientError(apiError)
                                                    THEN "true" ELSE "false"]
                   ELSE [apiError EXCEPT !.server = IF IsServerError(apiError)
                                                    THEN "true" ELSE "false"]
    /\ UNCHANGED <<bpc, bKind, bSent, bSlept, bLog, mr>>
    /\ UNCHANGED <<now, authVars, limiterVars, retryVars, chainVars, signVars, vaultVars,
                   credVars>>

APIErrorNext ==
    \/ APIErrorCall("IsClientError")
    \/ APIErrorCall("IsServerError")

\* NewAPIError(statusCode, message, details, endpoint)
APIErrorInit ==
    /\ now = StartTime
    /\ NewAuthManager
    /\ Idle({"limiter", "retry", "chain", "signing", "vault", "credentials"})
    /\ bpc = "ready"
    /\ bKind = "none"
    /\ bSent = 0
    /\ bSlept = FALSE
    /\ bLog = <<>>
    /\ mr = [pc |-> "idle", body |-> "nil", err |-> "pending", sent |-> <<>>]
    /\ apiError \in [StatusCode : (0 - MaxStatus)..MaxStatus, client : {"uncalled"},
                     server : {"uncalled"}]

SpecAPIError == APIErrorInit /\ [][APIErrorNext]_vars

(***************************************************************************)
(* CredentialManagers (one per vault password) over one                    *)
(* MemoryCredentialStore, called by the goroutines that are not "off".     *)
(* The map has no lock: a goroutine is "inmap" from the moment its call    *)
(* reaches the map until the map operation has returned.  A map access     *)
(* that overlaps another goroutine's, one of the two writing, is a data    *)
(* race: the Go runtime may stop the process (cmFault) or let it go on.    *)
(***************************************************************************)
\* StoreCredentials up to cm.store.Store: both fields encrypted on their
\* own, and a salt from rand.Reader that nothing reads
StoreCredentials(op) ==
    [key |-> op.key,
     encryptedUsername |-> EncodeToString(Encrypt(op.pw, op.username, op.n1)),
     encryptedPassword |-> EncodeToString(Encrypt(op.pw, op.password, op.n2)),
     salt |-> "salt"]

RetrieveCredentials_UsernameTwice(pw, key) ==
    IF ~\E r \in cmStore : r.key = key
    THEN [NoReturn EXCEPT !.err = "credentials not found"]
    ELSE LET r == CHOOSE r \in cmStore : r.key = key
             u == Decrypt(pw, r.encryptedUsername)
         IN  IF u.err # "nil"
             THEN [NoReturn EXCEPT !.err = "failed to decrypt username"]
             ELSE [username |-> u.text, password |-> u.text, found |-> TRUE, err |-> "nil"]

\* RetrieveCredentials: ms.Retrieve, then Decrypt of the username, then of
\* the password
RetrieveCredentials(pw, key) ==
    IF ~\E r \in cmStore : r.key = key
    THEN [NoReturn EXCEPT !.err = "credentials not found"]
    ELSE LET r == CHOOSE r \in cmStore : r.key = key
             u == Decrypt(pw, r.encryptedUsername)
             q == Decrypt(pw, r.encryptedPassword)
         IN  IF u.err # "nil"
             THEN [NoReturn EXCEPT !.err = "failed to decrypt username"]
             ELSE IF q.err # "nil"
             THEN [NoReturn EXCEPT !.err = "failed to decrypt password"]
             ELSE [username |-> u.text, password |-> q.text, found |-> TRUE, err |-> "nil"]

\* NewCredentialManager over a new MemoryCredentialStore, used by n goroutines;
\* clients are the Clients that may hold it
CredInit(n, clients) ==
    /\ now = StartTime
    /\ NewAuthManager
    /\ Idle({"limiter", "retry", "chain", "signing", "vault", "batch"})
    /\ cmStore = {}
    /\ cmLast = {}
    /\ cmpc = [p \in Callers |-> IF p <= n THEN "idle" ELSE "off"]
    /\ cmOp = [p \in Callers |-> NoCall]
    /\ cmRes = [p \in Callers |-> NoReturn]
    /\ cmFault = FALSE
    /\ cmClient \in clients

\* a goroutine calls StoreCredentials, RetrieveCredentials, DeleteCredentials,
\* CredentialsExist or ClearCredentials; ms.Store refuses the empty key
\* before it touches the map
CredCall(p, op) ==
    /\ ~cmFault
    /\ cmpc[p] \in {"idle", "done"}
    /\ cmOp' = [cmOp EXCEPT ![p] = op]
    /\ IF op.name = "Store" /\ op.key = ""
       THEN /\ cmpc' = [cmpc EXCEPT ![p] = "done"]
            /\ cmRes' = [cmRes EXCEPT ![p] = [NoReturn EXCEPT !.err = "key cannot be empty"]]
       ELSE /\ cmpc' = [cmpc EXCEPT ![p] = "inmap"]
            /\ cmRes' = [cmRes EXCEPT ![p] = NoReturn]
    /\ UNCHANGED <<cmStore, cmLast, cmFault, cmClient>>
    /\ UNCHANGED <<now, authVars, limiterVars, retryVars, chainVars, signVars, vaultVars,
                   batchVars>>

\* the map operation of the call: ms.store[key] = credentials, the lookup
\* of Retrieve and Exists, delete(ms.store, key), the loop of ClearCredentials
CredAccess(p) ==
    LET op == cmOp[p]
        writes(o) == o.name \in {"Store", "Delete", "Clear"}
        racing == \E q \in Callers \ {p} :
                      cmpc[q] = "inmap" /\ (writes(op) \/ writes(cmOp[q]))
        others == {r \in cmStore : r.key # op.key}
    IN  /\ ~cmFault
        /\ cmpc[p] = "inmap"
        /\ cmFault' \in (IF racing THEN BOOLEAN ELSE {FALSE})
        /\ cmpc' = [cmpc EXCEPT ![p] = "done"]
        /\ CASE op.name = "Store" ->
                  /\ cmStore' = others \cup {StoreCredentials(op)}
                  /\ cmLast' = {w \in cmLast : w.key # op.key}
                                  \cup {[key |-> op.key, pw |-> op.pw,
                                         username |-> op.username,
                                         password |-> op.password]}
                  /\ cmRes' = [cmRes EXCEPT ![p] = [NoReturn EXCEPT !.err = "nil"]]
             [] op.name = "Retrieve" ->
                  /\ cmRes' = [cmRes EXCEPT ![p] = RetrieveCredentials(op.pw, op.key)]
                  /\ UNCHANGED <<cmStore, cmLast>>
             [] op.name = "Delete" ->
                  /\ cmStore' = others
                  /\ cmLast' = {w \in cmLast : w.key # op.key}
                  /\ cmRes' = [cmRes EXCEPT ![p] = [NoReturn EXCEPT !.err = "nil"]]
             [] op.name = "Exists" ->
                  /\ cmRes' = [cmRes EXCEPT ![p] =
                                  [NoReturn EXCEPT !.err = "nil",
                                                   !.found = (others # cmStore)]]
                  /\ UNCHANGED <<cmStore, cmLast>>
             [] op.name = "Clear" ->
                  /\ cmStore' = {}
                  /\ cmLast' = {}
                  /\ cmRes' = [cmRes EXCEPT ![p] = [NoReturn EXCEPT !.err = "nil"]]
        /\ UNCHANGED <<cmOp, cmClient>>
        /\ UNCHANGED <<now, authVars, limiterVars, retryVars, chainVars, signVars,
                       vaultVars, batchVars>>

CredNext ==
    LET keys == {"", "k1"}
        cmCalls ==
            [name : {"Store"}, key : keys, pw : Passwords, username : {<<>>, <<"a">>},
             password : {<<"b">>}, n1 : NonceIds, n2 : {1}]
            \cup [name : {"Retrieve"}, key : keys, pw : Passwords, username : {<<>>},
                  password : {<<>>}, n1 : {0}, n2 : {0}]
            \cup [name : {"Delete", "Exists"}, key : keys, pw : {""}, username : {<<>>},
                  password : {<<>>}, n1 : {0}, n2 : {0}]
            \cup {[NoCall EXCEPT !.name = "Clear"]}
    IN  \/ \E p \in Callers : \E op \in cmCalls : CredCall(p, op)
        \/ \E p \in Callers : CredAccess(p)

\* one goroutine
SpecCredentials == CredInit(1, {[custom |-> FALSE, pw |-> ""]}) /\ [][CredNext]_vars

\* every goroutine
SpecSharedStore == CredInit(NumCallers, {[custom |-> FALSE, pw |-> ""]}) /\ [][CredNext]_vars

(***************************************************************************)
(* The credentials of a Client, used by one goroutine: its                 *)
(* credentialManager is nil or holds an encryption password; its store is  *)
(* config.Security.CredentialStore when one was configured (a              *)
(* MemoryCredentialStore set with SetCredentialStore), else the store that *)
(* NewCredentialManager made.                                              *)
(***************************************************************************)
\* EnableCredentialEncryption: a new CredentialManager, over the configured
\* store or, when there is none, over a new empty MemoryCredentialStore
EnableCredentialEncryption(encryptionPassword) ==
    /\ cmpc[1] \in {"idle", "done"}
    /\ cmClient' = [cmClient EXCEPT !.pw = encryptionPassword]
    /\ cmStore' = IF cmClient.custom THEN cmStore ELSE {}
    /\ UNCHANGED <<cmLast, cmpc, cmOp, cmRes, cmFault>>
    /\ UNCHANGED <<now, authVars, limiterVars, retryVars, chainVars, signVars, vaultVars,
                   batchVars>>

\* StoreSecureCredentials and RetrieveSecureCredentials: an error while the
\* manager is nil, else the manager's StoreCredentials or RetrieveCredentials
SecureCredentials(op) ==
    IF cmClient.pw = ""
    THEN /\ cmpc[1] \in {"idle", "done"}
         /\ cmOp' = [cmOp EXCEPT ![1] = op]
         /\ cmpc' = [cmpc EXCEPT ![1] = "done"]
         /\ cmRes' = [cmRes EXCEPT ![1] =
                         [NoReturn EXCEPT !.err = "credential encryption not enabled"]]
         /\ UNCHANGED <<cmStore, cmLast, cmFault, cmClient>>
         /\ UNCHANGED <<now, authVars, limiterVars, retryVars, chainVars, signVars,
                        vaultVars, batchVars>>
    ELSE CredCall(1, [op EXCEPT !.pw = cmClient.pw])

ClientCredNext ==
    LET keys == {"", "k1", "k2"}
        cmCalls ==
            [name : {"Store"}, key : keys, pw : {""}, username : {<<>>, <<"a">>},
             password : {<<"b">>}, n1 : NonceIds, n2 : {1}]
            \cup [name : {"Retrieve"}, key : keys, pw : {""}, username : {<<>>},
                  password : {<<>>}, n1 : {0}, n2 : {0}]
    IN  \/ \E pw \in Passwords : EnableCredentialEncryption(pw)
        \/ \E op \in cmCalls : SecureCredentials(op)
        \/ CredAccess(1)

\* a Client after New, with or without EncryptCredentials and with or
\* without a custom store
SpecClientCredentials ==
    CredInit(1, [custom : BOOLEAN, pw : Passwords \cup {""}]) /\ [][ClientCredNext]_vars

(***************************************************************************)
(* AuthManager: properties.                                                *)
(***************************************************************************)
\* the validity rule as the specification words it: a non-empty token whose
\* expiry is more than 5 minutes ahead
CacheValid ==
    /\ token # EmptyString
    /\ now + TokenBuffer < expiresAt

LoginsInFlight == {p \in Callers : pc[p] = "inflight"}

\* C1: in every reachable state at most one login request is in flight,
\* however many callers are inside GetToken.
C1_AtMostOneLoginInFlight == Cardinality(LoginsInFlight) <= 1

\* a login is in flight while another caller is blocked on the refresh lock
C1_Witness ==
    \E p, q \in Callers : pc[p] = "inflight" /\ pc[q] = "lockwait"

\* C2 as claimed: a caller that was blocked on the refresh lock while a login
\* succeeded does not log in again and returns a token.  Stated for logins
\* that delivered a non-empty token which is still the cached one, so that
\* neither an empty token in the answer nor ClearToken is what refutes it.
C2_WaitersNeverLoginAgain ==
    \A q \in Callers :
        (waitedOnOK[q] /\ token # EmptyString) =>
            /\ pc[q] \notin {"send", "inflight"}
            /\ pc[q] = "done" => result[q].err = "nil"

\* C2 amended: a caller that was blocked on the refresh lock while a login
\* succeeded re-checks the cache; when the cache is valid at the re-check it
\* returns the cached token and no login is sent, and it sends a login of
\* its own only when the cache is invalid.
C2_WaitersRecheck ==
    [][\A q \in Callers :
         waitedOnOK[q] =>
            /\ (pc[q] = "recheck" /\ pc'[q] # "recheck" /\ CacheValid) =>
                  /\ pc'[q] = "done"
                  /\ result'[q] = Returned(token)
                  /\ loginsSent' = loginsSent
            /\ (pc[q] = "send" /\ pc'[q] = "inflight") => ~CacheValid]_vars

\* two concurrent callers, one login: the caller that waited returned the
\* token the other one fetched
C2_Witness ==
    \E p, q \in Callers :
        /\ p # q
        /\ loginsSent = 1
        /\ pc[p] = "done" /\ loginResp[p] = "ok"
        /\ pc[q] = "done" /\ waitedOnOK[q] /\ loginResp[q] = "none"
        /\ result[q] = Returned(token)
        /\ result[p] = result[q]

\* C3: while the cached token is valid no step sends a login request, and a
\* GetToken call that starts returns the cached token at once.
C3_ValidCacheNoLogin ==
    [][CacheValid =>
         /\ loginsSent' = loginsSent
         /\ \A p \in Callers :
               (pc[p] = "idle" /\ pc'[p] # "idle") =>
                   /\ pc'[p] = "done"
                   /\ result'[p] = Returned(token)]_vars

\* three calls were served by one login and the cache is still valid
C3_Witness ==
    /\ CacheValid
    /\ loginsSent = 1
    /\ calls >= 3
    /\ \E p \in Callers :
          pc[p] = "done" /\ loginResp[p] = "none" /\ result[p] = Returned(token)

\* C4: the step that handles a failed login returns an error, leaves token
\* and expiry as they were and releases the refresh lock; and a failure is
\* never cached: every error GetToken returns comes from a login attempt of
\* that very call.
C4_FailedLoginLeavesCache ==
    [][/\ \A p \in Callers :
            (pc[p] = "inflight" /\ pc'[p] = "done" /\ loginResp'[p] \in FailureKinds) =>
                /\ token' = token
                /\ expiresAt' = expiresAt
                /\ result'[p].err # "nil"
                /\ result'[p].tok = EmptyString
                /\ refreshMutex' = 0
       /\ \A p \in Callers :
            (pc'[p] = "done" /\ result'[p].err # "nil") =>
                loginResp'[p] \in FailureKinds \cup {"norequest"}]_vars

\* a login failed, the cache is still invalid, and a second login is on its way
C4_Witness ==
    \E p, q \in Callers :
        /\ p # q
        /\ pc[p] = "done" /\ loginResp[p] \in FailureKinds
        /\ result[p].err # "nil"
        /\ ~CacheValid
        /\ pc[q] = "inflight"
        /\ loginsSent >= 2

\* C5: the cached token is empty exactly when expiresAt is the zero time.
C5_EmptyIffZeroExpiry == (token = EmptyString) <=> (expiresAt = ZeroTime)

(***************************************************************************)
(* RateLimiter: properties.                                                *)
(***************************************************************************)
\* BurstSize, the capacity C in whole tokens
Capacity == maxTokens \div TokenScale

\* entries k .. k+n-1 of the admission log carry one clock reading
SameInstant(k, n) == \A i \in k..(k + n - 1) : admitLog[i] = admitLog[k]

\* C6: once C tokens were spent with no time elapsing, an Allow at the same
\* clock reading is denied, and the next admission comes no sooner than 1/R
\* later (refillRate * elapsed >= 1.0 token).
C6_DrainedThenRefill ==
    ~rlNil =>
        /\ \A k \in 1..Len(admitLog) :
              (k + Capacity <= Len(admitLog) /\ SameInstant(k, Capacity)) =>
                  refillRate * (admitLog[k + Capacity] - admitLog[k]) >= TokenScale
        /\ \A p \in LimiterCallers :
              ( /\ lpc[p] = "spend"
                /\ Len(admitLog) >= Capacity
                /\ \A i \in (Len(admitLog) - Capacity + 1)..Len(admitLog) :
                      admitLog[i] = lnow[p] ) => ~lok[p]

\* C tokens went in one instant, an Allow was denied, and after 1/R or more
\* an Allow admitted again
C6_Witness ==
    /\ ~rlNil
    /\ Len(admitLog) = Capacity + 1
    /\ SameInstant(1, Capacity)
    /\ refillRate * (admitLog[Capacity + 1] - admitLog[1]) >= TokenScale
    /\ \E p \in LimiterCallers :
          lpc[p] = "done" /\ lop[p] = "Allow" /\ lres[p] = "false"

\* C7: for every interleaving of Allow and Wait callers, the admissions
\* whose clock readings lie in an interval of length t number at most
\* C + R * t.
C7_AdmissionsBounded ==
    \A i, j \in 1..Len(admitLog) :
        i <= j =>
            (j - i + 1) * TokenScale
                <= maxTokens + refillRate * (admitLog[j] - admitLog[i])

\* one caller holds the mutex about to spend the last token while another
\* caller waits for the mutex
C7_Witness ==
    \E p, q \in LimiterCallers :
        /\ lpc[p] = "spend" /\ lok[p] /\ rlMutex = p
        /\ tokens < 2 * TokenScale
        /\ lpc[q] = "lock"

\* C8: a limiter built from a nil or disabled config is nil; its Allow
\* returns true and its Wait returns nil, both at once, never blocking.
C8_DisabledIsIdentity ==
    (rlConfig.isNil \/ ~rlConfig.enabled) =>
        /\ rlNil
        /\ \A p \in LimiterCallers :
              /\ lpc[p] \in {"idle", "done"}
              /\ (lpc[p] = "done" /\ lop[p] = "Allow") => lres[p] = "true"
              /\ (lpc[p] = "done" /\ lop[p] = "Wait") => lres[p] = "nil"

\* on a limiter disabled by Enabled == false an Allow returned true and a
\* Wait returned nil
C8_Witness ==
    /\ ~rlConfig.isNil /\ ~rlConfig.enabled
    /\ \E p, q \in LimiterCallers :
          /\ lpc[p] = "done" /\ lop[p] = "Allow" /\ lres[p] = "true"
          /\ lpc[q] = "done" /\ lop[q] = "Wait" /\ lres[q] = "nil"

(***************************************************************************)
(* retryTransport: properties.                                             *)
(***************************************************************************)
ServerError == [err |-> FALSE, resp |-> Response(500)]
Success == [err |-> FALSE, resp |-> Response(200)]

\* C9: with maxRetries >= 2 over a transport answering 500, 500, 200 the
\* call makes exactly 3 requests, returns the 200 with a nil error, and
\* slept d * 2^0 and then d * 2^1; every k-th sleep of any call is
\* d * 2^(k-1) (2 s, 4 s, 8 s for SetRetryPolicy(3, 2)).
C9_RetriesWithBackoff ==
    rtpc = "done" =>
        /\ \A k \in 1..Len(sleeps) : sleeps[k] = rtRetryDelay * 2 ^ (k - 1)
        /\ ( /\ rtMaxRetries >= 2
             /\ script[1] = ServerError
             /\ script[2] = ServerError
             /\ script[3] = Success ) =>
                 /\ requests = 3
                 /\ rtResp = Response(200)
                 /\ ~rtErr
                 /\ sleeps = <<rtRetryDelay, 2 * rtRetryDelay>>

\* SetRetryPolicy(3, 2) over 500, 500, 200 has returned
C9_Witness ==
    /\ rtpc = "done"
    /\ rtMaxRetries = 3 /\ rtRetryDelay = 2
    /\ script[1] = ServerError /\ script[2] = ServerError /\ script[3] = Success
    /\ requests = 3
    /\ sleeps = <<2, 4>>

\* C10: once the inner transport has answered, without error, with a status
\* in [200, 500), that answer is the last request of the call and is what
\* RoundTrip returns, with a nil error; as the first answer it makes the
\* call a single request with no sleep.
C10_NoRetryBelow500 ==
    \A k \in 1..requests :
        (~script[k].err /\ script[k].resp.status >= 200 /\ script[k].resp.status < 500) =>
            /\ k = requests
            /\ rtpc = "done"
            /\ rtResp = script[k].resp
            /\ ~rtErr
            /\ k = 1 => sleeps = <<>>

\* a 400 answered the first request of a call that had retries left
C10_Witness ==
    /\ rtpc = "done"
    /\ rtMaxRetries >= 1
    /\ script[1] = [err |-> FALSE, resp |-> Response(400)]
    /\ requests = 1
    /\ rtResp = Response(400)

(***************************************************************************)
(* C11: RoundTrip ends after at most maxRetries + 1 attempts, and what it   *)
(* returns is the last attempt's response and error, unchanged.            *)
(***************************************************************************)
AttemptBudget == IF rtMaxRetries + 1 > 0 THEN rtMaxRetries + 1 ELSE 0

AllAttemptsFailed == \A k \in 1..requests : ~isFinal(script[k])

C11_LastOutcome ==
    /\ requests <= AttemptBudget
    /\ (rtpc = "done" /\ requests >= 1) =>
           /\ rtResp = script[requests].resp
           /\ rtErr = script[requests].err
    /\ (rtpc = "done" /\ requests >= 1 /\ AllAttemptsFailed) =>
           requests = AttemptBudget

\* C11: every RoundTrip call terminates, within its attempt budget, with
\* the last attempt's response/error as its one outcome
C11_TerminatesWithLastOutcome == [](C11_LastOutcome) /\ <>(rtpc = "done")

\* the budget was used up by failures and the last one was a 5xx response
C11_Witness ==
    /\ rtpc = "done"
    /\ rtMaxRetries >= 1
    /\ requests = rtMaxRetries + 1
    /\ AllAttemptsFailed
    /\ ~script[requests].err
    /\ rtResp = script[requests].resp

(***************************************************************************)
(* C12: the chain is layered Signing -> Admission Control -> Retry -> base. *)
(***************************************************************************)
LayerRank(kind) ==
    CASE kind = "signing" -> 1
      [] kind = "ratelimit" -> 2
      [] kind = "retry" -> 3

\* C12: after New and after every reconfiguration call, a wrapper further
\* out in the chain is of an earlier kind in the order signing, rate limit,
\* retry
C12_LayeringOrder ==
    \A i \in 1..Len(chain) : \A j \in 1..Len(chain) :
        i < j => LayerRank(chain[i].kind) < LayerRank(chain[j].kind)

(***************************************************************************)
(* C13: with retry, rate limiting and signing configured, every retry      *)
(* attempt is gated by Wait and freshly signed.                            *)
(***************************************************************************)
HasLayer(kind) == \E i \in 1..Len(chain) : chain[i].kind = kind

\* C13: a second or later attempt reaches the base transport only after a
\* Wait and a SignRequest of its own
C13_RetriesGatedAndSigned ==
    ( /\ cRateLimiter /\ cRequestSigner /\ HasLayer("retry")
      /\ HasLayer("ratelimit") /\ HasLayer("signing")
      /\ rqpc = "down" /\ rqPos = BasePos /\ attempts >= 1 )
        => (rqWaited >= 1 /\ rqSigned = "fresh")

(***************************************************************************)
(* C14: blocking waits observe the cancellation of the request context.    *)
(***************************************************************************)
\* C14: a request that is in its backoff sleep with a cancelled context
\* goes on by returning the context's error
C14_SleepObservesCancel ==
    [][(rqpc = "sleep" /\ rqCtxDone) => (rqpc' = "up" /\ rqErr' = "ctxerr")]_vars

(***************************************************************************)
(* C15: a failing login is not retried by the retry policy.                *)
(***************************************************************************)
\* C15: the login request of one GetToken call reaches the endpoint once
\* and causes no backoff sleep
C15_LoginNotRetried ==
    rqKind = "login" => (attempts <= 1 /\ rqSleeps = 0)

(***************************************************************************)
(* C17: VerifySignature accepts the signature of SignRequest inside the    *)
(* replay window and rejects outside it, and without a usable X-Timestamp. *)
(***************************************************************************)
NotAnInteger ==
    {<<>>, <<"x">>} \cup {FormatInt(t) \o <<"SP">> : t \in Instants}

\* C17: for a non-nil signer, the request as signed at SigEpoch verifies
\* exactly while |now - SigEpoch| <= 300; a timestamp more than 300 s from
\* now, a missing one and one that is no integer are rejected
C17_VerifyWindow ==
    (~rsNil /\ verified # "none") =>
        /\ (tampered = "none" /\ abs(now - SigEpoch) <= ReplayWindow)
               => verified = "true"
        /\ (\E t \in Instants :
               sreq.xTimestamp = FormatInt(t) /\ abs(now - t) > ReplayWindow)
               => verified = "false"
        /\ sreq.xTimestamp \in NotAnInteger => verified = "false"

\* verified at the far edge of the window
C17_Witness ==
    /\ ~rsNil
    /\ tampered = "none"
    /\ now = SigEpoch + ReplayWindow
    /\ verified = "true"

(***************************************************************************)
(* C18: a change of a signed field after signing makes verification fail.  *)
(***************************************************************************)
\* C18 as claimed: whatever signed field was changed to a different value,
\* VerifySignature returns false for the original signature
C18_AnyChangeRejected ==
    (~rsNil /\ tampered # "none" /\ verified # "none") => verified = "false"

CountOf(t, params) == Cardinality({k \in 1..Len(params) : params[k] = t})

SameParameters(p, q) ==
    \A k \in 1..Len(QueryTokens) : CountOf(QueryTokens[k], p) = CountOf(QueryTokens[k], q)

\* the change is one the canonical string shows
VisibleChange ==
    \/ tampered \in {"method", "path", "body", "xTimestamp"}
    \/ tampered = "query" /\ ~SameParameters(sreq.query, signedReq.query)
    \/ /\ tampered = "authorization"
       /\ TrimSpace(sreq.authorization) # TrimSpace(signedReq.authorization)
    \/ /\ tampered = "contentType"
       /\ TrimSpace(sreq.contentType) # TrimSpace(signedReq.contentType)

\* C18 amended: a changed method, path, body or X-Timestamp, a query whose
\* parameters are not a reordering of the signed ones, and an authorization
\* or content-type that differs after trimming, are rejected
C18_VisibleChangeRejected ==
    (~rsNil /\ VisibleChange /\ verified # "none") => verified = "false"

\* a changed body, verified at the time of signing
C18_Witness ==
    /\ ~rsNil
    /\ tampered = "body"
    /\ now = SigEpoch
    /\ verified = "false"

(***************************************************************************)
(* C19: Decrypt undoes Encrypt; the empty string maps to the empty string. *)
(***************************************************************************)
\* C19: Encrypt("") is "", and what Encrypt returned, handed unchanged to
\* Decrypt under the same password, comes back as the plaintext without an
\* error (for "" under any password)
C19_RoundTrip ==
    /\ (alteration # "idle" /\ plaintext = <<>>) => ciphertext = <<>>
    /\ (alteration = "none" /\ plaintext # <<>>) => ciphertext # <<>>
    /\ (alteration = "none" /\ decResult # NoDecrypt
          /\ (decPassword = cePassword \/ plaintext = <<>>))
         => decResult = [text |-> plaintext, err |-> "nil"]

\* the longest plaintext came back
C19_Witness ==
    /\ alteration = "none"
    /\ Len(plaintext) = MaxPlainLen
    /\ decPassword = cePassword
    /\ decResult = [text |-> plaintext, err |-> "nil"]

(***************************************************************************)
(* C20: Decrypt fails on input that is not what Encrypt returned under the *)
(* same key.                                                               *)
(***************************************************************************)
\* C20 as claimed: the encryption of a non-empty plaintext that was altered
\* afterwards (cut short, a character replaced, bits or a line break added)
\* or that is decrypted under another password yields an error and no
\* plaintext
C20_AlteredOrOtherKeyFails ==
    (decResult # NoDecrypt /\ plaintext # <<>>
        /\ (alteration # "none" \/ decPassword # cePassword))
        => (decResult.err # "nil" /\ decResult.text = <<>>)

\* the input is not the empty string, and is no base64, or decodes to fewer
\* bytes than a nonce, or to other bytes than Encrypt produced, or the key
\* is another one
Undecryptable ==
    /\ ciphertext # <<>>
    /\ \/ ~DecodeString(ciphertext).ok
       \/ Len(DecodeString(ciphertext).bytes) < NonceSize
       \/ DecodeString(ciphertext).bytes # sealed
       \/ decPassword # cePassword

\* C20 amended: for a non-empty input, Decrypt returns an error and no
\* plaintext when the input is not valid base64, decodes to fewer bytes than
\* the nonce or to bytes other than the ones Encrypt produced, or the key
\* comes from another password
C20_UndecryptableFails ==
    (decResult # NoDecrypt /\ Undecryptable)
        => (decResult.err # "nil" /\ decResult.text = <<>>)

\* one character of the ciphertext part replaced, same password
C20_Witness ==
    /\ alteration = "replaced"
    /\ decPassword = cePassword
    /\ DecodeString(ciphertext).ok
    /\ decResult.err = "failed to decrypt"

(***************************************************************************)
(* C16: a client with rate limiting (rps, burst) and signing enabled sends *)
(* burst + MaxExtra requests back to back: the first burst requests are    *)
(* admitted at once (Wait does not sleep), the remaining ones are admitted *)
(* at least 1/rps seconds apart, and every request carries an X-Signature  *)
(* that VerifySignature accepts.                                           *)
(***************************************************************************)
ApiAdmissions == SelectSeq(bLog, LAMBDA e : e.kind = "api")

C16_BurstAdmittedAtOnce ==
    \A i \in 1..Len(ApiAdmissions) :
        i <= rlConfig.burst => ApiAdmissions[i].immediate

C16_RestSpaced ==
    \A i \in 1..(Len(ApiAdmissions) - 1) :
        i > rlConfig.burst =>
            (ApiAdmissions[i + 1].at - ApiAdmissions[i].at) * refillRate >= TokenScale

C16_AllVerifiable ==
    \A i \in 1..Len(ApiAdmissions) : ApiAdmissions[i].verified # "false"

C16_EndToEnd ==
    /\ C16_BurstAdmittedAtOnce
    /\ C16_RestSpaced
    /\ C16_AllVerifiable


(***************************************************************************)
(* C21: in sequential use, RetrieveCredentials(k) returns what the last    *)
(* StoreCredentials(k, u, p) that succeeded was given, by the manager with *)
(* the same vault password, until DeleteCredentials(k) or ClearCredentials;*)
(* for a key that is not stored it returns the not-found error, which no   *)
(* call on a stored key returns: those fail, if at all, with a decryption  *)
(* error.                                                                  *)
(***************************************************************************)
C21_RetrieveLastStored ==
    \A p \in Callers :
        (cmpc[p] = "done" /\ cmOp[p].name = "Retrieve") =>
            IF \E w \in cmLast : w.key = cmOp[p].key
            THEN LET w == CHOOSE w \in cmLast : w.key = cmOp[p].key IN
                 /\ w.pw = cmOp[p].pw =>
                        cmRes[p] = [username |-> w.username, password |-> w.password,
                                    found |-> TRUE, err |-> "nil"]
                 /\ cmRes[p].err \in {"nil", "failed to decrypt username",
                                      "failed to decrypt password"}
            ELSE cmRes[p] = [NoReturn EXCEPT !.err = "credentials not found"]

C21_Witness ==
    \E p \in Callers :
        /\ cmpc[p] = "done"
        /\ cmOp[p].name = "Retrieve"
        /\ cmRes[p].err = "nil"
        /\ cmRes[p].username = <<"a">>
        /\ cmRes[p].password = <<"b">>

(***************************************************************************)
(* C22: no two goroutines are inside an operation on the map of one        *)
(* MemoryCredentialStore at the same time.                                 *)
(***************************************************************************)
C22_MapAccessExclusive ==
    \A p, q \in Callers : (cmpc[p] = "inmap" /\ cmpc[q] = "inmap") => p = q


(***************************************************************************)
(* C23: GetAvailableTokens leaves tokens and lastRefill as they are, and   *)
(* returns the refill formula of the state it read; so repeated reads add  *)
(* no tokens and a following Allow decides as it would have without them.  *)
(***************************************************************************)
C23_GetAvailableTokensReadOnly ==
    [][\A p \in LimiterCallers :
          (lpc[p] = "idle" /\ lop'[p] = "GetAvailableTokens") =>
              /\ tokens' = tokens
              /\ lastRefill' = lastRefill
              /\ maxTokens' = maxTokens
              /\ refillRate' = refillRate
              /\ ~rlNil => lres'[p] = ToString(Refill(tokens, now - lastRefill))]_vars

C23_Witness ==
    \E p \in LimiterCallers :
        /\ lpc[p] = "done"
        /\ lop[p] = "GetAvailableTokens"
        /\ ~rlNil
        /\ now > lastRefill
        /\ tokens < maxTokens

(***************************************************************************)
(* C30: in every reachable state of an enabled RateLimiter,                *)
(* 0 <= tokens <= maxTokens.                                               *)
(***************************************************************************)
C30_TokensInRange == ~rlNil => (0 <= tokens /\ tokens <= maxTokens)

\* the same for a limiter built with BurstSize >= 0 (and RequestsPerSecond > 0)
C30_TokensInRangeFromValidConfig ==
    (~rlNil /\ rlConfig.burst >= 0 /\ rlConfig.rps > 0) =>
        (0 <= tokens /\ tokens <= maxTokens)

C30_Witness ==
    /\ ~rlNil
    /\ rlConfig.burst >= 1
    /\ tokens = maxTokens
    /\ Len(admitLog) >= 1
    /\ \E p \in LimiterCallers : lpc[p] = "done" /\ lop[p] = "GetAvailableTokens"


(***************************************************************************)
(* C24: GetToken takes the cached token exactly when it is non-empty and   *)
(* now + 5 min is strictly before expiresAt; with an empty token, an       *)
(* expired one or one that expires within the next 5 minutes it goes on to *)
(* refreshToken.                                                           *)
(***************************************************************************)
C24_ValidExactlyBeforeBuffer ==
    [][\A p \in Callers :
          (pc[p] = "idle" /\ pc'[p] # "idle") =>
              IF token # EmptyString /\ now + TokenBuffer < expiresAt
              THEN pc'[p] = "done" /\ result'[p] = Returned(token)
              ELSE pc'[p] = "lockwait"]_vars

\* a call went on to refresh a token that is not expired yet but expires
\* within the buffer
C24_Witness ==
    \E p \in Callers :
        /\ pc[p] = "lockwait"
        /\ token # EmptyString
        /\ now < expiresAt
        /\ expiresAt <= now + TokenBuffer


(***************************************************************************)
(* C25: while the client has a request signer, every request handed to the *)
(* base transport carries the X-Timestamp and X-Signature that the signing *)
(* transport set for this attempt, whatever SetRateLimit, EnableRateLimit, *)
(* DisableRateLimit and SetRetryPolicy calls came after signing was        *)
(* enabled; while the signer is nil the request carries neither header.    *)
(***************************************************************************)
C25_SigningSurvivesReconfiguration ==
    [][attempts' = attempts + 1 =>
          IF cRequestSigner THEN rqSigned = "fresh" ELSE rqSigned = "none"]_vars

\* a signed request went out through a chain that SetRetryPolicy and then
\* SetRateLimit or EnableRateLimit wrapped around the signing transport
C25_Witness ==
    /\ cRequestSigner
    /\ base = "default"
    /\ Len(chain) = 3
    /\ chain[1].kind = "ratelimit"
    /\ chain[2].kind = "retry"
    /\ chain[3].kind = "signing"
    /\ rqpc = "up"
    /\ attempts >= 1
    /\ rqSigned = "stale"


(***************************************************************************)
(* C26: the cached token and its expiry are written only while the refresh *)
(* lock is held: no step of AuthManager, ClearToken included, changes      *)
(* token or expiresAt while refreshMutex is free.                          *)
(***************************************************************************)
C26_WrittenUnderRefreshLock ==
    [][(token' # token \/ expiresAt' # expiresAt) => refreshMutex # 0]_vars

(***************************************************************************)
(* C27: a ClearToken that returned while a login was in flight is not      *)
(* undone: when that login finishes, the cache is still empty.             *)
(***************************************************************************)
C27_ClearNotUndone ==
    [][\A p \in Callers :
          (pc[p] = "inflight" /\ pc'[p] = "done" /\ clearedInFlight) =>
              token' = EmptyString]_vars


(***************************************************************************)
(* C28: a goroutine whose login request is being built or is in flight     *)
(* holds a.mutex in neither mode; the read lock is held only across the    *)
(* validity check and the write lock of a refresh only across the store;   *)
(* a GetToken caller that cannot take the read lock is held back by a      *)
(* refresh that is at its final store (or by ClearToken), never by one     *)
(* that is in flight; and the store writes the token and the expiry of     *)
(* the same login in one step under the write lock.                        *)
(***************************************************************************)
C28_NoValueLockDuringLogin ==
    /\ [](/\ \A p \in Callers :
                pc[p] \in {"lockwait", "recheck", "send", "inflight", "wlock"} =>
                    p \notin mutex.readers /\ mutex.writer # p
          /\ \A p \in mutex.readers : pc[p] \in {"fastcheck", "doublecheck"}
          /\ mutex.writer # 0 => pc[mutex.writer] = "store"
          /\ \A q \in Callers :
                (/\ pc[q] = "idle"
                 /\ calls < MaxCalls
                 /\ mutex.clearing = "off"
                 /\ ~ENABLED mutexRLock(q)) =>
                    \E p \in Callers : pc[p] \in {"wlock", "store"})
    /\ [][/\ (token' # token \/ expiresAt' # expiresAt) =>
                 (mutex.writer # 0 \/ mutex.clearing = "store")
          /\ \A p \in Callers :
                (pc[p] = "store" /\ pc'[p] = "done") =>
                    /\ mutex.writer = p
                    /\ token' = local[p].token
                    /\ expiresAt' = local[p].expiresAt]_vars

\* a GetToken caller is inside its read-locked check while another
\* goroutine's login is in flight
C28_Witness ==
    \E p \in Callers : \E q \in Callers :
        /\ pc[p] = "inflight"
        /\ pc[q] = "fastcheck"
        /\ q \in mutex.readers


(***************************************************************************)
(* C29: a request that runs while a SetRateLimit call is in progress is    *)
(* processed by a chain that has every kind of layer that both the chain   *)
(* before the call and the chain after it have.                            *)
(***************************************************************************)
C29_AtomicSwap ==
    (reconf.pc = "install" /\ rqpc \in {"down", "up", "sleep", "done"}) =>
        LET kinds(t) == {t[k].kind : k \in 1..Len(t)}
        IN  (kinds(reconf.prev) \cap kinds(SetRateLimitChain(reconf.prev)))
                \subseteq kinds(chain)


(***************************************************************************)
(* C32: the transport chain holds at most one rateLimitTransport.          *)
(***************************************************************************)
C32_AtMostOneRateLimit ==
    Cardinality({k \in 1..Len(chain) : chain[k].kind = "ratelimit"}) <= 1

(***************************************************************************)
(* C33: while c.rateLimiter is nil, that is from the return of             *)
(* DisableRateLimit to the next SetRateLimit or EnableRateLimit, no        *)
(* rateLimitTransport is left anywhere in the chain.                       *)
(***************************************************************************)
C33_DisableRemovesRateLimit ==
    ~cRateLimiter => \A k \in 1..Len(chain) : chain[k].kind # "ratelimit"

(***************************************************************************)
(* C34: the chain holds at most one retryTransport, and a request is sent  *)
(* to the base transport at most maxRetries + 1 times, for the policy set  *)
(* last.                                                                   *)
(***************************************************************************)
C34_AtMostOneRetry ==
    LET retries == {k \in 1..Len(chain) : chain[k].kind = "retry"}
    IN  /\ Cardinality(retries) <= 1
        /\ \A k \in retries : attempts <= chain[k].maxRetries + 1

(***************************************************************************)
(* C35: a step that sets or clears the request signer leaves the base      *)
(* transport and the retry layers of the chain as they were.               *)
(***************************************************************************)
C35_SigningKeepsRetryAndBase ==
    [][cRequestSigner' # cRequestSigner =>
          /\ base' = base
          /\ SelectSeq(chain', LAMBDA l : l.kind = "retry")
                 = SelectSeq(chain, LAMBDA l : l.kind = "retry")]_vars


(***************************************************************************)
(* C36: retryTransport.RoundTrip returns after at least one attempt, with  *)
(* a non-nil response or a non-nil error, for every maxRetries.            *)
(***************************************************************************)
C36_NeverNilNil ==
    rtpc = "done" => (requests >= 1 /\ (~rtResp.nil \/ rtErr))


(***************************************************************************)
(* C37: at every call of the inner transport the stream in req.Body holds  *)
(* the whole body the request was built with, however much of it earlier   *)
(* attempts have read.                                                     *)
(***************************************************************************)
C37_BodyWholeAtEveryAttempt ==
    [][requests' = requests + 1 => reqBody = rtBody]_vars

\* a request with a body was sent a third time after the first two
\* attempts failed, and the last attempt read the body to its end
C37_Witness ==
    /\ rtpc = "done"
    /\ requests >= 3
    /\ ~rtBody.nil
    /\ Len(rtBody.data) = MaxBodyLen
    /\ reqBody.data = <<>>


(***************************************************************************)
(* C38: a makeRequest call whose body fails validation returns a           *)
(* ValidationError and has sent no request, with or without a valid token  *)
(* in the cache when it was called.                                        *)
(***************************************************************************)
C38_InvalidBodySendsNothing ==
    (mr.pc = "done" /\ mr.body = "invalid") =>
        (mr.err = "ValidationError" /\ mr.sent = <<>>)


(***************************************************************************)
(* C39: EnableCredentialEncryption loses no credentials: whenever the      *)
(* Client is between two calls, every key last stored under the password   *)
(* its credentialManager now uses is returned by RetrieveSecureCredentials *)
(* with the username and password stored, with or without a custom store.  *)
(***************************************************************************)
C39_ReEnableKeepsCredentials ==
    (cmClient.pw # "" /\ cmpc[1] # "inmap") =>
        \A w \in cmLast :
            w.pw = cmClient.pw =>
                LET r == RetrieveCredentials(cmClient.pw, w.key)
                IN  r.found /\ r.username = w.username /\ r.password = w.password


(***************************************************************************)
(* C40: IsClientError returns true exactly for 400 <= StatusCode < 500 and *)
(* IsServerError exactly for StatusCode >= 500; the two never both return  *)
(* true, and neither returns true for a StatusCode below 400.              *)
(***************************************************************************)
C40_ClassifiedByStatusRange ==
    LET status == apiError.StatusCode IN
    /\ apiError.client # "uncalled" =>
           (apiError.client = "true" <=> (400 <= status /\ status < 500))
    /\ apiError.server # "uncalled" =>
           (apiError.server = "true" <=> status >= 500)
    /\ ~(apiError.client = "true" /\ apiError.server = "true")
    /\ status < 400 => (apiError.client # "true" /\ apiError.server # "true")

C40_Witness ==
    /\ apiError.StatusCode = 499
    /\ apiError.client = "true"
    /\ apiError.server = "false"


(***************************************************************************)
(* C31: under a fair scheduler, with RequestsPerSecond > 0, BurstSize >= 1 *)
(* and contexts that are never cancelled, every caller in Wait is          *)
(* admitted in the end, whatever the other callers of Wait and Allow do.   *)
(***************************************************************************)
C31_WaitEventuallyAdmitted ==
    \A p \in LimiterCallers :
        (lop[p] = "Wait" /\ lpc[p] # "done") ~> (lop[p] = "Wait" /\ lres[p] = "nil")

=============================================================================
